---- MODULE Spec2Model ----
(***************************************************************************)
(* Model of the JWST association generator support code:                   *)
(*   jwst/associations/lib/dms_base.py  (DMSBaseMixin, Constraint_TSO)     *)
(*   jwst/associations/main.py          (Main, filter_discovered_only)     *)
(*                                                                         *)
(* Python values are modelled as strings; the Python object None and the   *)
(* outcome "key not in the mapping" get strings of their own that no pool  *)
(* value can take.                                                         *)
(***************************************************************************)
EXTENDS Integers, Sequences, FiniteSets, TLC

VARIABLES
    \* ---- is_item_tso (SpecTso) ----
    item,          \* the pool item handed to is_item_tso
    isTsoValue,    \* outcome of self.constraints['is_tso'].value
    otherExpTypes, \* the other_exp_types argument
    tsoResult,     \* what is_item_tso returned or raised
    tsoCons,       \* what evaluating Constraint_TSO on the item gave
    \* ---- one association's products and degraded status (SpecDegraded) ----
    hasProducts,   \* 'products' in self.data
    products,      \* self.data['products']: sequence of member sequences
    degraded,      \* self.data['degraded_status']
    lastOp,        \* name of the last operation applied to the association
    isMember,      \* the last is_member call: the expname asked for and the result
    \* ---- rule classes, their sequence counters and one run of Main (Spec) ----
    mode,          \* the operation selector of the command line
    phase,         \* "generate" while associations are created, then "done"
    ownSeq,        \* per class: next value of the class's own _sequence, 0 if none
    asns,          \* Main.associations: the associations of the run, in order
    issuedSeq,     \* per rule class: sequence numbers given since the last
                   \* reset of the counter the class uses
    seqOp,         \* the last operation and what it returned
    \* ---- filter_discovered_only applied to a list, then to its result (SpecFilter) ----
    fIn,           \* the associations argument
    fKeep,         \* the keep_candidates argument
    fStage,        \* number of applications done; -1 after a KeyError
    fOut1,         \* result of the first application
    fOut2,         \* result of applying it to fOut1
    \* ---- asn_name read on two associations (SpecName) ----
    nAsn,          \* the two associations
    nName,         \* per association: what reading asn_name gave
    \* ---- a product name fragment read on two associations (SpecFrag) ----
    pnKind,        \* which fragment is read
    pnCons,        \* per association: its constraints with their found values
    pnOut,         \* per association: what the fragment method gave
    \* ---- one call of constrain_on_candidates (SpecCand) ----
    ccIn,          \* the candidates argument
    ccOut,         \* the constraint returned
    \* ---- one call of get_exposure_type (SpecExp) ----
    etItem,        \* the pool item
    etDefault,     \* the default argument
    etOrder,       \* the order in which SPECIAL_EXPTYPES iterates
    etResult,      \* what the call gave
    \* ---- one run of generate (SpecGen) ----
    gPool,         \* the pool: its rows in order
    gRegistry,     \* the rules, in the order they are tried
    gSeq,          \* per class: the counter it owns, 0 when it owns none
    gQueue,        \* the rows still to attempt in this pass
    gReprocess,    \* the rows deferred in this pass
    gCycle,        \* the reprocess cycles started
    gChanged,      \* whether this pass put a row into an association
    gAsns,         \* the associations made
    gMatched,      \* the rows marked as in an association
    gOrphaned,     \* the orphaned rows returned
    gPhase,        \* idle, run, done, failed, aborted
    gTries,        \* per row: how often it was attempted
    gDeferred,     \* the rows that were ever deferred
    \* ---- the validity tests of one association (SpecValid) ----
    vValidity,     \* per attached test: test['validated']
    vEvals,        \* per attached test: how often test['check'] was called
    vCount,        \* the entries passed to update_validity
    vOp,           \* the last operation, its entry and its result
    \* ---- one evaluation of a composite constraint (SpecCons) ----
    cChildren,     \* what evaluating each child gave, in order
    cReduce,       \* the reduction of the composite: all or any
    cResult,       \* the result of the composite
    \* ---- the version id of one generation run (SpecVer) ----
    verArg,        \* parsed.version_id
    verNow,        \* the current time
    verRun,        \* the run: its phase, its version id, when it began
    verAsns,       \* the associations of the run, in order of creation
    \* ---- one call of imaging_distortion (SpecWcs) ----
    wFilter,       \* input_model.meta.instrument.filter
    wTree,         \* the tree of the filteroffset reference file
    wResult,       \* what imaging_distortion raised or returned
    wPixel         \* a pixel and what the returned model makes of it

tsoVars == <<item, isTsoValue, otherExpTypes, tsoResult, tsoCons>>
degVars == <<hasProducts, products, degraded, lastOp, isMember>>
seqVars == <<mode, phase, ownSeq, asns, issuedSeq, seqOp>>
filtVars == <<fIn, fKeep, fStage, fOut1, fOut2>>
nameVars == <<nAsn, nName>>
fragVars == <<pnKind, pnCons, pnOut>>
candVars == <<ccIn, ccOut>>
expVars == <<etItem, etDefault, etOrder, etResult>>
genVars == <<gPool, gRegistry, gSeq, gQueue, gReprocess, gCycle, gChanged, gAsns, gMatched, gOrphaned, gPhase, gTries, gDeferred>>
validVars == <<vValidity, vEvals, vCount, vOp>>
consVars == <<cChildren, cReduce, cResult>>
verVars == <<verArg, verNow, verRun, verAsns>>
wcsVars == <<wFilter, wTree, wResult, wPixel>>
vars == <<tsoVars, degVars, seqVars, filtVars, nameVars, fragVars, candVars, expVars, genVars, validVars, consVars, verVars, wcsVars>>

\* Python's None, and the absence of a key from a mapping
PyNone == "<None>"
Missing == "<missing>"

\* dms_base.py: Non-specified values found in DMS Association Pools
_EMPTY == {PyNone, "", "NULL", "Null", "null", "--", "N", "n", "F", "f", "N/A", "n/a"}

TSO_EXP_TYPES == <<"nrc_tsimage", "nrc_tsgrism", "nrs_brightobj">>
CORON_EXP_TYPES == <<"mir_lyot", "mir_4qpm", "nrc_coron">>

SeqToSet(s) == {s[i] : i \in 1..Len(s)}

(***************************************************************************)
(* getattr_from_list(item, attributes, invalid_values): the first          *)
(* attribute of the list that the item has with a value that is not None   *)
(* and not invalid; KeyError when there is none.                           *)
(***************************************************************************)
RECURSIVE getattr_from_list(_, _, _)
getattr_from_list(it, attributes, invalid_values) ==
    IF attributes = <<>> THEN "KeyError"
    ELSE LET a == Head(attributes) IN
         IF a \in DOMAIN it /\ it[a] # Missing /\ it[a] # PyNone
            /\ it[a] \notin invalid_values
         THEN it[a]
         ELSE getattr_from_list(it, Tail(attributes), invalid_values)

\* DMSBaseMixin.item_getattr: the value part of the (attribute, value) pair
item_getattr(it, attributes) == getattr_from_list(it, attributes, _EMPTY)

\* is_item_tso that leaves the extra exposure types out
is_item_tso_noextra(it, isTso, other) ==
    IF it.pntgtype = Missing THEN "KeyError"
    ELSE IF it.pntgtype # "science" THEN "False"
    ELSE LET c == IF isTso \in {"KeyError", "AttributeError"} THEN FALSE
                  ELSE isTso = "t"
             v == item_getattr(it, <<"tsovisit">>)
             e == item_getattr(it, <<"exp_type">>)
             r == c \/ (v # "KeyError" /\ v = "t")
                    \/ (e # "KeyError" /\ e \in SeqToSet(TSO_EXP_TYPES))
         IN IF r THEN "True" ELSE "False"

\* is_item_tso without the pntgtype gate: a plausible slip
is_item_tso_nogate(it, isTso, other) ==
    LET all_exp_types == SeqToSet(TSO_EXP_TYPES) \cup other
        c == (isTso = "t")
        v == item_getattr(it, <<"tsovisit">>)
        e == item_getattr(it, <<"exp_type">>)
        r == c \/ (v # "KeyError" /\ v = "t")
               \/ (e # "KeyError" /\ e \in all_exp_types)
    IN IF it.pntgtype = Missing THEN "KeyError"
       ELSE IF r THEN "True" ELSE "False"

(***************************************************************************)
(* DMSBaseMixin.is_item_tso(item, other_exp_types).  isTso is what         *)
(* self.constraints['is_tso'].value gives: a string, or KeyError /         *)
(* AttributeError when the association has no such constraint.             *)
(***************************************************************************)
is_item_tso(it, isTso, other) ==
    IF it.pntgtype = Missing THEN "KeyError"
    ELSE IF it.pntgtype # "science" THEN "False"
    ELSE LET all_exp_types == SeqToSet(TSO_EXP_TYPES) \cup other
             c == IF isTso \in {"KeyError", "AttributeError"} THEN FALSE
                  ELSE isTso = "t"
             v == item_getattr(it, <<"tsovisit">>)
             e == item_getattr(it, <<"exp_type">>)
             r == c \/ (v # "KeyError" /\ v = "t")
                    \/ (e # "KeyError" /\ e \in all_exp_types)
         IN IF r THEN "True" ELSE "False"

\* ---- inputs of is_item_tso ----
PntgtypeValues == {Missing, "science", "SCIENCE", "target_acquisition", "null"}
TsovisitValues == {Missing, "t", "f", "T"}
ExpTypeValues == {Missing, "nrc_tsimage", "nrs_brightobj", "mir_lyot", "mir_image"}
IsTsoValues == {"KeyError", "AttributeError", "t", "f"}
OtherExpTypesValues == {{}, SeqToSet(CORON_EXP_TYPES)}

Items == [pntgtype : PntgtypeValues, tsovisit : TsovisitValues, exp_type : ExpTypeValues]

TsoInit ==
    /\ item \in Items
    /\ isTsoValue \in IsTsoValues
    /\ otherExpTypes \in OtherExpTypesValues
    /\ tsoResult = "NotCalled"
    /\ tsoCons = "NotEvaluated"

IsItemTso ==
    /\ tsoResult = "NotCalled"
    /\ tsoResult' = is_item_tso(item, isTsoValue, otherExpTypes)
    /\ UNCHANGED <<item, isTsoValue, otherExpTypes, tsoCons>>

\* the is_item_tso variables while another specification runs
TsoIdle ==
    /\ item = [pntgtype |-> Missing, tsovisit |-> Missing, exp_type |-> Missing]
    /\ isTsoValue = "KeyError"
    /\ otherExpTypes = {}
    /\ tsoResult = "NotCalled"
    /\ tsoCons = "NotEvaluated"

\* ---- the association whose degraded status is followed ----
_DEGRADED_STATUS_OK == "No known degraded exposures in association."
_DEGRADED_STATUS_NOTOK == "One or more members have an error associated with them."

\* bounds of the association's product list and of a product's member list
MaxProducts == 2
MaxMembers == 2

\* MEMBER_KEY: the key that uniquely identifies members
MEMBER_KEY == "expname"

ExpNames == {"e1", "e2"}
ExposerrValues == {Missing, PyNone, "n/a", "bad"}
Members == [expname : ExpNames, exposerr : ExposerrValues]

\* the test of update_degraded_status on one member: member['exposerr']
\* exists (no KeyError) and is not in _EMPTY
MemberDegraded(m) == m.exposerr # Missing /\ m.exposerr \notin _EMPTY

AnyDegraded(prods) ==
    \E p \in 1..Len(prods) : \E i \in 1..Len(prods[p]) : MemberDegraded(prods[p][i])

\* update_degraded_status that recomputes the status on every call
update_degraded_status_recompute(status, prods) ==
    IF AnyDegraded(prods) THEN _DEGRADED_STATUS_NOTOK ELSE _DEGRADED_STATUS_OK

\* update_degraded_status that looks at the current product only
update_degraded_status_current(status, prods) ==
    IF status = _DEGRADED_STATUS_OK /\ Len(prods) > 0
       /\ \E i \in 1..Len(prods[Len(prods)]) : MemberDegraded(prods[Len(prods)][i])
    THEN _DEGRADED_STATUS_NOTOK
    ELSE status

(***************************************************************************)
(* DMSBaseMixin.update_degraded_status: the new value of                   *)
(* data['degraded_status'].  Only a status that is OK is looked at again;  *)
(* the inner break leaves the loop over one product's members, the loop    *)
(* over the products goes on, so every product is scanned.                 *)
(***************************************************************************)
update_degraded_status(status, prods) ==
    IF status = _DEGRADED_STATUS_OK /\ AnyDegraded(prods)
    THEN _DEGRADED_STATUS_NOTOK
    ELSE status

\* DMSBaseMixin.current_product: data['products'][-1]
current_product(prods) == prods[Len(prods)]

\* Member equality: the member key fields compare equal
MemberEq(m1, m2) == m1.expname = m2.expname

\* is_member that looks through the members of every product
is_member_any(prods, new_member) ==
    \E p \in 1..Len(prods) : \E i \in 1..Len(prods[p]) : MemberEq(prods[p][i], new_member)

\* is_member that finds no member
is_member_never(prods, new_member) == FALSE

\* DMSBaseMixin.is_member: is new_member in the current product
is_member(prods, new_member) ==
    \E i \in 1..Len(current_product(prods)) :
        MemberEq(current_product(prods)[i], new_member)

\* is_member was not the last thing called
NotAsked == [expname |-> "", result |-> "NotCalled"]

DegIdle ==
    /\ hasProducts = FALSE
    /\ products = <<>>
    /\ degraded = _DEGRADED_STATUS_OK
    /\ lastOp = "init"
    /\ isMember = NotAsked

\* DMSBaseMixin.is_member called with a candidate; without 'products' the
\* KeyError of current_product is caught and the answer is False
IsMember(m) ==
    /\ isMember' = [expname |-> m.expname,
                    result |-> IF hasProducts /\ is_member(products, m) THEN "True" ELSE "False"]
    /\ lastOp' = "is_member"
    /\ UNCHANGED <<hasProducts, products, degraded>>

\* DMSBaseMixin.new_product: append an empty product, creating the list
\* when data has no 'products' yet
NewProduct ==
    /\ Len(products) < MaxProducts
    /\ products' = Append(products, <<>>)
    /\ hasProducts' = TRUE
    /\ lastOp' = "new_product"
    /\ isMember' = NotAsked
    /\ UNCHANGED degraded

\* a rule adds a member to the current product unless it is a member already
AddMember(m) ==
    /\ hasProducts
    /\ Len(products) > 0
    /\ Len(current_product(products)) < MaxMembers
    /\ products' = IF is_member(products, m) THEN products
                   ELSE [products EXCEPT ![Len(products)] = Append(@, m)]
    /\ lastOp' = "add_member"
    /\ isMember' = [expname |-> m.expname, result |-> IF is_member(products, m) THEN "True" ELSE "False"]
    /\ UNCHANGED <<hasProducts, degraded>>

\* a member is taken out of a product's member list
RemoveMember(p, i) ==
    /\ p \in 1..Len(products)
    /\ i \in 1..Len(products[p])
    /\ products' = [products EXCEPT ![p] =
                       SubSeq(@, 1, i - 1) \o SubSeq(@, i + 1, Len(@))]
    /\ lastOp' = "remove_member"
    /\ isMember' = NotAsked
    /\ UNCHANGED <<hasProducts, degraded>>

\* DMSBaseMixin.update_degraded_status as called directly; data['products']
\* is read only when the status is OK and raises KeyError when absent
UpdateDegradedStatus ==
    /\ IF degraded = _DEGRADED_STATUS_OK /\ ~hasProducts
       THEN /\ lastOp' = "update_degraded_status:KeyError"
            /\ UNCHANGED degraded
       ELSE /\ degraded' = update_degraded_status(degraded, products)
            /\ lastOp' = "update_degraded_status"
    /\ isMember' = NotAsked
    /\ UNCHANGED <<hasProducts, products>>

\* DMSBaseMixin.update_asn: only calls update_degraded_status
UpdateAsn ==
    /\ IF degraded = _DEGRADED_STATUS_OK /\ ~hasProducts
       THEN /\ lastOp' = "update_asn:KeyError"
            /\ UNCHANGED degraded
       ELSE /\ degraded' = update_degraded_status(degraded, products)
            /\ lastOp' = "update_asn"
    /\ isMember' = NotAsked
    /\ UNCHANGED <<hasProducts, products>>

\* ---- rule classes and their sequence counters ----
\* main.py: ruleset names
DISCOVER_RULESET == "discover"
CANDIDATE_RULESET == "candidate"

\* bounds: associations created in one run
MaxAsns == 3

\* DMSBaseMixin and the rule classes derived from it, one per rule and ruleset
BaseClass == "DMSBaseMixin"
RuleClasses == {"candidate_Asn_Image", "discover_Asn_Image", "candidate_Asn_Spec", "discover_Asn_Spec"}

\* the rules the registries of the run are loaded with (--rules)
LoadedClasses == {"candidate_Asn_Image", "discover_Asn_Image"}
AllClasses == LoadedClasses \cup {BaseClass}

\* asn.registry.name of the associations of a rule class
RegistryName(cls) ==
    IF cls \in {"candidate_Asn_Image", "candidate_Asn_Spec"}
    THEN CANDIDATE_RULESET ELSE DISCOVER_RULESET

\* data['asn_type'] of the associations of a rule class
AsnType(cls) ==
    IF cls \in {"candidate_Asn_Image", "discover_Asn_Image"}
    THEN "image3" ELSE "spec3"

\* the class whose _sequence attribute a lookup on cls finds: its own when
\* reset_sequence has set one on it, else the one DMSBaseMixin defines
SequenceOwner(own, cls) == IF own[cls] # 0 THEN cls ELSE BaseClass

\* Counter(start=1): the first next() gives 1
CounterStart == 1

\* Counter.__next__: the value the counter holds after giving out v
CounterNext(v) == v + 1

\* the member ids an association can end with
MemberIdSets == {{"e1"}, {"e1", "e2"}}

\* next(asn._sequence) that gives the value without advancing the counter
next_sequence_noadvance(own, cls) ==
    [value |-> own[SequenceOwner(own, cls)], own |-> own]

(***************************************************************************)
(* asn.sequence = next(asn._sequence) in DMSBaseMixin.create: the value    *)
(* comes from the counter the class's attribute lookup finds, and that     *)
(* counter advances by one.                                                *)
(***************************************************************************)
next_sequence(own, cls) ==
    LET o == SequenceOwner(own, cls)
    IN [value |-> own[o], own |-> [own EXCEPT ![o] = CounterNext(@)]]

\* the association's equality: same type and same member ids, whatever
\* rule class and ruleset produced it
AsnEq(a, b) == AsnType(a.cls) = AsnType(b.cls) /\ a.members = b.members
AsnNe(a, b) == ~AsnEq(a, b)

\* the associations of a list that belong to one ruleset, in list order
RECURSIVE OfRuleset(_, _)
OfRuleset(associations, ruleset) ==
    IF associations = <<>> THEN <<>>
    ELSE (IF RegistryName(Head(associations).cls) = ruleset
          THEN <<Head(associations)>> ELSE <<>>)
         \o OfRuleset(Tail(associations), ruleset)

\* unique_list of filter_discovered_only: the discovered associations that
\* differ from the candidate
RECURSIVE UniqueList(_, _)
UniqueList(discover_list, candidate) ==
    IF discover_list = <<>> THEN <<>>
    ELSE (IF AsnNe(Head(discover_list), candidate)
          THEN <<Head(discover_list)>> ELSE <<>>)
         \o UniqueList(Tail(discover_list), candidate)

\* the loop over candidate_list of filter_discovered_only
RECURSIVE FilterLoop(_, _)
FilterLoop(candidate_list, discover_list) ==
    IF candidate_list = <<>> \/ Len(discover_list) = 0 THEN discover_list
    ELSE FilterLoop(Tail(candidate_list),
                    UniqueList(discover_list, Head(candidate_list)))

\* a filter whose candidates each take out only the first discovered
\* association equal to them
RECURSIVE RemoveFirstEq(_, _)
RemoveFirstEq(discover_list, candidate) ==
    IF discover_list = <<>> THEN <<>>
    ELSE IF AsnEq(Head(discover_list), candidate) THEN Tail(discover_list)
    ELSE <<Head(discover_list)>> \o RemoveFirstEq(Tail(discover_list), candidate)

RECURSIVE FilterLoopFirst(_, _)
FilterLoopFirst(candidate_list, discover_list) ==
    IF candidate_list = <<>> \/ Len(discover_list) = 0 THEN discover_list
    ELSE FilterLoopFirst(Tail(candidate_list),
                         RemoveFirstEq(discover_list, Head(candidate_list)))

filter_discovered_only_first(associations, discover_ruleset, candidate_ruleset, keep_candidates) ==
    LET candidate_list == OfRuleset(associations, candidate_ruleset)
        discover_list == FilterLoopFirst(candidate_list,
                             OfRuleset(associations, discover_ruleset))
    IN IF keep_candidates THEN discover_list \o candidate_list ELSE discover_list

\* a filter that compares with the first candidate only
filter_discovered_only_one(associations, discover_ruleset, candidate_ruleset, keep_candidates) ==
    LET candidate_list == OfRuleset(associations, candidate_ruleset)
        discover_list == FilterLoop(IF candidate_list = <<>> THEN <<>>
                                    ELSE <<Head(candidate_list)>>,
                                    OfRuleset(associations, discover_ruleset))
    IN IF keep_candidates THEN discover_list \o candidate_list ELSE discover_list

\* a filter that keeps the candidates whatever keep_candidates says
filter_discovered_only_keep(associations, discover_ruleset, candidate_ruleset, keep_candidates) ==
    LET candidate_list == OfRuleset(associations, candidate_ruleset)
        discover_list == FilterLoop(candidate_list,
                             OfRuleset(associations, discover_ruleset))
    IN discover_list \o candidate_list

(***************************************************************************)
(* filter_discovered_only(associations, discover_ruleset,                  *)
(* candidate_ruleset, keep_candidates): split by asn.registry.name, drop   *)
(* the discovered associations equal to a candidate, append the candidates *)
(* when asked to.                                                          *)
(***************************************************************************)
filter_discovered_only(associations, discover_ruleset, candidate_ruleset, keep_candidates) ==
    LET candidate_list == OfRuleset(associations, candidate_ruleset)
        discover_list == FilterLoop(candidate_list,
                             OfRuleset(associations, discover_ruleset))
    IN IF keep_candidates THEN discover_list \o candidate_list ELSE discover_list

\* a filter that takes the associations out of the list it was handed and
\* returns that list
filter_discovered_only_inplace(associations, discover_ruleset, candidate_ruleset, keep_candidates) ==
    LET r == filter_discovered_only(associations, discover_ruleset,
                                    candidate_ruleset, keep_candidates)
    IN [returned |-> r, associations |-> r]

\* one call of filter_discovered_only: the list returned and the list handed
\* in as the call leaves it.  The lists the function appends to and extends
\* are lists it made itself, and it reads the associations only.
filter_discovered_only_call(associations, discover_ruleset, candidate_ruleset, keep_candidates) ==
    [returned |-> filter_discovered_only(associations, discover_ruleset,
                                         candidate_ruleset, keep_candidates),
     associations |-> associations]

\* asn_by_ruleset[asn.registry.name] raises KeyError for any other ruleset
FilterRaises(associations, discover_ruleset, candidate_ruleset) ==
    \E i \in 1..Len(associations) :
        RegistryName(associations[i].cls) \notin {discover_ruleset, candidate_ruleset}

\* Utility.resequence: number the associations of each rule class 1, 2, ...
\* in list order
resequence(associations) ==
    [i \in 1..Len(associations) |->
        [associations[i] EXCEPT !.sequence =
            Cardinality({j \in 1..i : associations[j].cls = associations[i].cls})]]

\* the discover flag without the default of the empty selection
Discover_given(m) == m = "discover"

\* Main.__init__: the flags after the mode of operation is determined
Discover(m) == m \in {"none", "discover"}

AllCandidates(m) == m \in {"none", "all_candidates"}

\* the rule classes of the registries Main sets up
Registered(m) ==
    {c \in LoadedClasses : RegistryName(c) = CANDIDATE_RULESET \/ Discover(m)}

\* post-processing that resequences before it filters
main_postprocess_swapped(associations, discover, all_candidates) ==
    IF discover
    THEN filter_discovered_only(resequence(associations), DISCOVER_RULESET,
                                CANDIDATE_RULESET, all_candidates)
    ELSE associations

\* Main.__init__ after generate: filter, then resequence, when discovering
main_postprocess(associations, discover, all_candidates) ==
    IF discover
    THEN resequence(filter_discovered_only(associations, DISCOVER_RULESET,
                                           CANDIDATE_RULESET, all_candidates))
    ELSE associations

Modes == {"none", "ids", "discover", "all_candidates"}

\* an operation that is not a create call
SeqOp(op) == [op |-> op, result |-> 0, made |-> FALSE, matched |-> FALSE, given |-> <<>>, reprocess |-> <<>>, after_failed |-> FALSE]

SeqIdle ==
    /\ mode = "none"
    /\ phase = "generate"
    /\ ownSeq = [c \in AllClasses |-> IF c = BaseClass THEN CounterStart ELSE 0]
    /\ asns = <<>>
    /\ issuedSeq = [c \in LoadedClasses |-> <<>>]
    /\ seqOp = SeqOp("init")

\* the classes as loaded and Main up to the call of generate
SeqInit ==
    /\ mode \in Modes
    /\ phase = "generate"
    /\ ownSeq = [c \in AllClasses |-> IF c = BaseClass THEN CounterStart ELSE 0]
    /\ asns = <<>>
    /\ issuedSeq = [c \in LoadedClasses |-> <<>>]
    /\ seqOp = SeqOp("init")

\* self.sequence as __init__ leaves it: None
NoSequence == 0

\* the lists of items to process again the base class's create can return
ReprocessLists == {<<>>, <<"e1">>}

\* create that takes a number from the counter before it looks at what the
\* base class returned
create_consumes(own, cls, made, reprocess) ==
    LET n == next_sequence(own, cls)
    IN [made |-> made, sequence |-> IF made THEN n.value ELSE NoSequence,
        reprocess |-> reprocess, own |-> n.own]

\* create that hands the association on without a sequence number
create_nosequence(own, cls, made, reprocess) ==
    [made |-> made, sequence |-> NoSequence, reprocess |-> reprocess, own |-> own]

(***************************************************************************)
(* DMSBaseMixin.create, from what the base class's create returned: made   *)
(* tells whether that was an association, reprocess is its list.  Gives    *)
(* the pair returned, the sequence number assigned and the counters.       *)
(***************************************************************************)
create(own, cls, made, reprocess) ==
    IF ~made THEN [made |-> FALSE, sequence |-> NoSequence, reprocess |-> reprocess, own |-> own]
    ELSE LET n == next_sequence(own, cls)
         IN [made |-> TRUE, sequence |-> n.value, reprocess |-> reprocess, own |-> n.own]

\* a create call of a rule class of the run and what follows from its result
Create(cls, members, made, reprocess) ==
    /\ phase = "generate"
    /\ cls \in Registered(mode)
    /\ LET r == create(ownSeq, cls, made, reprocess)
       IN /\ ownSeq' = r.own
          /\ asns' = IF r.made
                     THEN Append(asns, [id |-> Len(asns) + 1, cls |-> cls,
                                        sequence |-> r.sequence, members |-> members])
                     ELSE asns
          /\ issuedSeq' = IF r.made THEN [issuedSeq EXCEPT ![cls] = Append(@, r.sequence)]
                          ELSE issuedSeq
          /\ seqOp' = [op |-> "create", result |-> r.sequence, made |-> r.made,
                       matched |-> made, given |-> reprocess, reprocess |-> r.reprocess,
                       after_failed |-> (seqOp.op = "create" /\ ~seqOp.made)]
    /\ UNCHANGED <<mode, phase>>

\* DMSBaseMixin.create on an item the rule's constraints accept: the new
\* association gets the next sequence number
CreateMatch(cls, members) ==
    /\ Len(asns) < MaxAsns
    /\ \E reprocess \in ReprocessLists : Create(cls, members, TRUE, reprocess)

\* DMSBaseMixin.create on an item the rule's constraints reject: the base
\* class gives no association and create returns before the counter is used
CreateNoMatch(cls) ==
    \E reprocess \in ReprocessLists : Create(cls, {}, FALSE, reprocess)

\* DMSBaseMixin.reset_sequence called on cls: cls gets a fresh counter of
\* its own; every class whose lookup now finds it starts again
ResetSequence(cls) ==
    /\ phase = "generate"
    /\ ownSeq' = [ownSeq EXCEPT ![cls] = CounterStart]
    /\ issuedSeq' = [c \in LoadedClasses |->
                        IF SequenceOwner(ownSeq', c) = cls THEN <<>>
                        ELSE issuedSeq[c]]
    /\ seqOp' = SeqOp("reset_sequence")
    /\ UNCHANGED <<mode, phase, asns>>

\* Main.__init__ once generate has returned
MainPostprocess ==
    /\ phase = "generate"
    /\ asns' = main_postprocess(asns, Discover(mode), AllCandidates(mode))
    /\ phase' = "done"
    /\ seqOp' = SeqOp("postprocess")
    /\ UNCHANGED <<mode, ownSeq, issuedSeq>>

\* ---- filter_discovered_only on lists of constructed associations ----
\* bound: length of the list handed to filter_discovered_only
MaxList == 3

FilterMemberSets == {{"e1"}, {"e2"}, {"e1", "e2"}}

\* lists of associations as generate returns them: distinct objects, each
\* made by a rule class of one of the two rulesets
AsnLists ==
    UNION {[1..n -> [cls : RuleClasses, members : FilterMemberSets]] : n \in 0..MaxList}

AsAssociations(l) ==
    [i \in 1..Len(l) |-> [id |-> i, cls |-> l[i].cls, sequence |-> i,
                          members |-> l[i].members]]

FiltIdle ==
    /\ fIn = <<>>
    /\ fKeep = TRUE
    /\ fStage = 0
    /\ fOut1 = <<>>
    /\ fOut2 = <<>>

FiltInit ==
    /\ fIn \in {AsAssociations(l) : l \in AsnLists}
    /\ fKeep \in BOOLEAN
    /\ fStage = 0
    /\ fOut1 = <<>>
    /\ fOut2 = <<>>

\* filter_discovered_only(associations, 'discover', 'candidate', keep)
FilterOnce ==
    /\ fStage = 0
    /\ IF FilterRaises(fIn, DISCOVER_RULESET, CANDIDATE_RULESET)
       THEN fStage' = -1 /\ UNCHANGED <<fIn, fOut1>>
       ELSE LET call == filter_discovered_only_call(fIn, DISCOVER_RULESET,
                                                    CANDIDATE_RULESET, fKeep)
            IN /\ fStage' = 1
               /\ fOut1' = call.returned
               /\ fIn' = call.associations
    /\ UNCHANGED <<fKeep, fOut2>>

\* filter_discovered_only applied to its own result
FilterAgain ==
    /\ fStage = 1
    /\ fStage' = 2
    /\ LET call == filter_discovered_only_call(fOut1, DISCOVER_RULESET,
                                               CANDIDATE_RULESET, fKeep)
       IN /\ fOut2' = call.returned
          /\ fOut1' = call.associations
    /\ UNCHANGED <<fIn, fKeep>>

\* ---- association names; a string is a sequence of characters ----
UpperChars == <<"A", "B", "C", "D", "E", "F", "G", "H", "I", "J", "K", "L", "M", "N", "O", "P", "Q", "R", "S", "T", "U", "V", "W", "X", "Y", "Z">>
LowerChars == <<"a", "b", "c", "d", "e", "f", "g", "h", "i", "j", "k", "l", "m", "n", "o", "p", "q", "r", "s", "t", "u", "v", "w", "x", "y", "z">>
DigitChars == <<"0", "1", "2", "3", "4", "5", "6", "7", "8", "9">>

\* str.lower on the characters of the model
LowerChar(ch) ==
    IF \E k \in 1..Len(UpperChars) : UpperChars[k] = ch
    THEN LowerChars[CHOOSE k \in 1..Len(UpperChars) : UpperChars[k] = ch]
    ELSE ch
Lower(str) == [k \in 1..Len(str) |-> LowerChar(str[k])]

\* the decimal digits of a natural number
RECURSIVE Decimal(_)
Decimal(n) ==
    IF n < 10 THEN <<DigitChars[n + 1]>>
    ELSE Decimal(n \div 10) \o <<DigitChars[(n % 10) + 1]>>

\* the format specification 03d: zero-padded to a width of 3
Format03d(n) ==
    LET d == Decimal(n)
    IN IF Len(d) >= 3 THEN d ELSE [k \in 1..(3 - Len(d)) |-> "0"] \o d

\* None where a string can stand
NoneStr == <<PyNone>>

\* DMSBaseMixin.acid: _acid, or acid_from_constraints() when _acid is None
Acid(asn) == IF asn._acid = NoneStr THEN asn.constraint_acid ELSE asn._acid

\* the version id as a string, tested for truth by asn_name
NoVersion(version_id) == version_id = NoneStr \/ version_id = <<>>

\* asn_name that returns the formatted name as it is
asn_name_nolower(asn) ==
    IF asn.sequence = 0 THEN [raised |-> "TypeError", name |-> <<>>]
    ELSE [raised |-> "",
          name |-> IF NoVersion(asn.version_id)
                   THEN <<"j", "w">> \o asn.program \o <<"-">> \o Acid(asn)
                        \o <<"_">> \o asn.asn_type \o <<"_">>
                        \o Format03d(asn.sequence) \o <<"_", "a", "s", "n">>
                   ELSE <<"j", "w">> \o asn.program \o <<"-">> \o Acid(asn)
                        \o <<"_">> \o asn.version_id
                        \o <<"_">> \o asn.asn_type \o <<"_">>
                        \o Format03d(asn.sequence) \o <<"_", "a", "s", "n">>]

\* asn_name that never uses the template with the version stamp
asn_name_nostamp(asn) ==
    IF asn.sequence = 0 THEN [raised |-> "TypeError", name |-> <<>>]
    ELSE [raised |-> "",
          name |-> Lower(<<"j", "w">> \o asn.program \o <<"-">> \o Acid(asn)
                         \o <<"_">> \o asn.asn_type \o <<"_">>
                         \o Format03d(asn.sequence) \o <<"_", "a", "s", "n">>)]

(***************************************************************************)
(* DMSBaseMixin.asn_name: _ASN_NAME_TEMPLATE_STAMP when version_id is      *)
(* true, _ASN_NAME_TEMPLATE otherwise, then lower().  A sequence of None   *)
(* (0 here) cannot be formatted with 03d.                                  *)
(***************************************************************************)
asn_name(asn) ==
    IF asn.sequence = 0 THEN [raised |-> "TypeError", name |-> <<>>]
    ELSE [raised |-> "",
          name |-> Lower(
                   IF NoVersion(asn.version_id)
                   THEN <<"j", "w">> \o asn.program \o <<"-">> \o Acid(asn)
                        \o <<"_">> \o asn.asn_type \o <<"_">>
                        \o Format03d(asn.sequence) \o <<"_", "a", "s", "n">>
                   ELSE <<"j", "w">> \o asn.program \o <<"-">> \o Acid(asn)
                        \o <<"_">> \o asn.version_id
                        \o <<"_">> \o asn.asn_type \o <<"_">>
                        \o Format03d(asn.sequence) \o <<"_", "a", "s", "n">>)]

\* ---- the associations whose names are read ----
ProgramValues == {<<"n", "o", "p", "r", "o", "g", "r", "a", "m">>, <<"9", "9", "A">>}
AcidValues == {<<"o", "0", "0", "1">>, <<"O", "0", "0", "1">>}
VersionIdValues == {NoneStr, <<>>, <<"2", "0", "2", "6", "1", "1", "0", "6", "T", "0", "4", "3", "0">>}
AsnTypeValues == {<<"i", "m", "a", "g", "e", "3">>, <<"S", "p", "e", "c", "3">>}
SequenceValues == {0, 7, 1000}

NameAsns ==
    [program : ProgramValues, _acid : {NoneStr, <<"O", "0", "0", "1">>},
     constraint_acid : AcidValues, version_id : VersionIdValues,
     asn_type : AsnTypeValues, sequence : SequenceValues]

NotRead == [raised |-> "NotRead", name |-> <<>>]

NameIdle ==
    /\ nAsn = <<>>
    /\ nName = <<>>

NameInit ==
    /\ nAsn \in [1..2 -> NameAsns]
    /\ nName = [k \in 1..2 |-> NotRead]

\* the asn_name property is read on association k
AsnName(k) ==
    /\ nName[k] = NotRead
    /\ nName' = [nName EXCEPT ![k] = asn_name(nAsn[k])]
    /\ UNCHANGED nAsn

\* ---- Level-3 product name fragments ----
\* the characters of names in code point order
AsciiChars == <<"-">> \o DigitChars \o UpperChars \o <<"_">> \o LowerChars
CharOrd(ch) == CHOOSE k \in 1..Len(AsciiChars) : AsciiChars[k] = ch

\* Python's < on strings
RECURSIVE StrLess(_, _)
StrLess(a, b) ==
    IF b = <<>> THEN FALSE
    ELSE IF a = <<>> THEN TRUE
    ELSE IF Head(a) = Head(b) THEN StrLess(Tail(a), Tail(b))
    ELSE CharOrd(Head(a)) < CharOrd(Head(b))

\* list.sort(key=str.lower): stable, an element goes behind the elements
\* already placed whose key is not greater
RECURSIVE InsertByLower(_, _)
InsertByLower(sorted, x) ==
    IF sorted = <<>> THEN <<x>>
    ELSE IF StrLess(Lower(x), Lower(Head(sorted))) THEN <<x>> \o sorted
    ELSE <<Head(sorted)>> \o InsertByLower(Tail(sorted), x)

RECURSIVE SortByLower(_)
SortByLower(alist) ==
    IF alist = <<>> THEN <<>>
    ELSE InsertByLower(SortByLower(SubSeq(alist, 1, Len(alist) - 1)), alist[Len(alist)])

\* str.join
RECURSIVE Join(_, _)
Join(sep, alist) ==
    IF alist = <<>> THEN <<>>
    ELSE IF Len(alist) = 1 THEN alist[1]
    ELSE alist[1] \o sep \o Join(sep, Tail(alist))

\* format_list: Format a list according to DMS naming specs
format_list(alist) == Join(<<"-">>, alist)

\* _EMPTY for values that are strings of characters
EmptyStrs == {NoneStr, <<>>, <<"N", "U", "L", "L">>, <<"N", "u", "l", "l">>, <<"n", "u", "l", "l">>, <<"-", "-">>, <<"N">>, <<"n">>, <<"F">>, <<"f">>, <<"N", "/", "A">>, <<"n", "/", "a">>}

\* the format specification 0>{width}s: right-aligned, filled with 0
PadLeft(str, width) ==
    IF Len(str) >= width THEN str ELSE [k \in 1..(width - Len(str)) |-> "0"] \o str

Returned(str) == [raised |-> "", value |-> str]
RaisedKeyError == [raised |-> "KeyError", value |-> <<>>]

\* DMSBaseMixin._get_exposure
_get_exposure(cons) ==
    IF ~cons["activity_id"].defined THEN Returned(<<>>)
    ELSE LET activity_id == format_list(cons["activity_id"].found_values)
         IN IF activity_id \notin EmptyStrs THEN Returned(PadLeft(activity_id, 2))
            ELSE Returned(<<>>)

\* DMSBaseMixin._get_instrument
_get_instrument(cons) ==
    IF ~cons["instrument"].defined THEN RaisedKeyError
    ELSE Returned(format_list(cons["instrument"].found_values))

\* the value one optical element constraint adds to opt_elems, if any
OptElemValue(con) ==
    IF ~con.defined THEN <<>>
    ELSE LET value == format_list(SortByLower(con.found_values))
         IN IF value \notin EmptyStrs THEN <<value>> ELSE <<>>

\* _get_opt_element that joins the values in the order they were found
_get_opt_element_unsorted(cons) ==
    LET one(con) == IF ~con.defined THEN <<>>
                    ELSE IF format_list(con.found_values) \notin EmptyStrs
                         THEN <<format_list(con.found_values)>> ELSE <<>>
        opt_elem == Join(<<"-">>, one(cons["opt_elem"]) \o one(cons["opt_elem2"])
                                  \o one(cons["opt_elem3"]))
    IN IF opt_elem = <<>> THEN Returned(<<"c", "l", "e", "a", "r">>)
       ELSE Returned(opt_elem)

\* DMSBaseMixin._get_opt_element
_get_opt_element(cons) ==
    LET opt_elems == OptElemValue(cons["opt_elem"]) \o OptElemValue(cons["opt_elem2"])
                     \o OptElemValue(cons["opt_elem3"])
        opt_elem == Join(<<"-">>, SortByLower(opt_elems))
    IN IF opt_elem = <<>> THEN Returned(<<"c", "l", "e", "a", "r">>)
       ELSE Returned(opt_elem)

\* DMSBaseMixin._get_subarray
_get_subarray(cons) ==
    IF ~cons["subarray"].defined THEN Returned(<<>>)
    ELSE LET subarray == format_list(cons["subarray"].found_values)
         IN IF subarray = <<"f", "u", "l", "l">> THEN Returned(<<>>)
            ELSE Returned(subarray)

\* DMSBaseMixin._get_target
_get_target(cons) ==
    IF ~cons["target"].defined THEN RaisedKeyError
    ELSE Returned(<<"t">> \o PadLeft(format_list(cons["target"].found_values), 3))

\* ---- the associations whose fragments are read ----
ConstraintNames == {"activity_id", "instrument", "opt_elem", "opt_elem2", "opt_elem3", "subarray", "target"}
FragmentKinds == {"exposure", "instrument", "opt_element", "subarray", "target"}

\* self.constraints[name] raises KeyError for a constraint that is not defined
NoConstraint == [defined |-> FALSE, found_values |-> <<>>]
Found(values) == [defined |-> TRUE, found_values |-> values]

\* found_values iterated in any order
Orders(S) ==
    {s \in UNION {[1..n -> S] : n \in 0..Cardinality(S)} :
        \A i, j \in 1..Len(s) : i # j => s[i] # s[j]}

InstrumentValues == {<<"m", "i", "r", "i">>, <<"n", "i", "r", "c", "a", "m">>}
OptElemValues == {<<"F", "7", "7", "0", "W">>, <<"f", "5", "6", "0", "w">>}
SubarrayValues == {<<"f", "u", "l", "l">>, <<"s", "u", "b", "6", "4">>}
TargetValues == {<<"1">>, <<"1", "2">>}
ActivityValues == {<<"1">>, <<"0", "2">>}

AnyOrder(S) == {NoConstraint} \cup {Found(s) : s \in Orders(S)}

\* the constraints of an association whose fragment of one kind is read;
\* the constraints the fragment does not use are left out
Constraints(act, ins, o1, o2, o3, sub, tgt) ==
    [n \in ConstraintNames |->
        CASE n = "activity_id" -> act
          [] n = "instrument" -> ins
          [] n = "opt_elem" -> o1
          [] n = "opt_elem2" -> o2
          [] n = "opt_elem3" -> o3
          [] n = "subarray" -> sub
          [] n = "target" -> tgt]

ConstraintsFor(kind) ==
    LET N == NoConstraint
    IN CASE kind = "exposure" ->
              {Constraints(c, N, N, N, N, N, N) : c \in AnyOrder(ActivityValues)}
         [] kind = "instrument" ->
              {Constraints(N, c, N, N, N, N, N) : c \in AnyOrder(InstrumentValues)}
         [] kind = "opt_element" ->
              {Constraints(N, N, c[1], c[2], c[3], N, N) :
                  c \in AnyOrder(OptElemValues)
                        \X {N, Found(<<>>), Found(<<<<"f", "5", "6", "0", "w">>>>), Found(<<<<"F", "7", "7", "0", "W">>>>)}
                        \X {N, Found(<<<<"n", "u", "l", "l">>>>)}}
         [] kind = "subarray" ->
              {Constraints(N, N, N, N, N, c, N) : c \in AnyOrder(SubarrayValues)}
         [] kind = "target" ->
              {Constraints(N, N, N, N, N, N, c) : c \in AnyOrder(TargetValues)}

FragNotRead == [raised |-> "NotRead", value |-> <<>>]

FragIdle ==
    /\ pnKind = "exposure"
    /\ pnCons = <<>>
    /\ pnOut = <<>>

FragInit ==
    /\ pnKind \in FragmentKinds
    /\ pnCons \in [1..2 -> ConstraintsFor(pnKind)]
    /\ pnOut = [k \in 1..2 |-> FragNotRead]

\* the fragment of the kind is computed for association k
GetFragment(k) ==
    /\ pnOut[k] = FragNotRead
    /\ pnOut' = [pnOut EXCEPT ![k] =
                    CASE pnKind = "exposure" -> _get_exposure(pnCons[k])
                      [] pnKind = "instrument" -> _get_instrument(pnCons[k])
                      [] pnKind = "opt_element" -> _get_opt_element(pnCons[k])
                      [] pnKind = "subarray" -> _get_subarray(pnCons[k])
                      [] pnKind = "target" -> _get_target(pnCons[k])]
    /\ UNCHANGED <<pnKind, pnCons>>

\* ---- main.constrain_on_candidates ----
MaxIds == 3

\* the candidates argument: None or a list of candidate ids
NoCandidates == [isNone |-> TRUE, list |-> <<>>]
CandidateList(ids) == [isNone |-> FALSE, list |-> ids]

\* constrain_on_candidates without the test for an empty list
constrain_on_candidates_nolen(candidates) ==
    LET values == IF ~candidates.isNone
                  THEN <<".", "+", "(">> \o Join(<<"|">>, candidates.list) \o <<")", ".", "+">>
                  ELSE NoneStr
    IN [value |-> values, inputs |-> <<"asn_candidate">>, force_unique |-> TRUE,
        is_acid |-> TRUE, evaluate |-> TRUE]

\* constrain_on_candidates: Create a constraint based on a list of candidates
constrain_on_candidates(candidates) ==
    LET c_list == Join(<<"|">>, candidates.list)
        values == IF ~candidates.isNone /\ Len(candidates.list) # 0
                  THEN <<".", "+", "(">> \o c_list \o <<")", ".", "+">>
                  ELSE NoneStr
    IN [value |-> values, inputs |-> <<"asn_candidate">>, force_unique |-> TRUE,
        is_acid |-> TRUE, evaluate |-> TRUE]

CandidateIds == {<<"o", "0", "0", "1">>, <<"o", "0", "0", "2">>, <<"c", "1", "0", "0", "0">>, <<"a", "3", "0", "0", "1">>}
CandidateArgs ==
    {NoCandidates} \cup {CandidateList(ids) : ids \in UNION {[1..n -> CandidateIds] : n \in 0..MaxIds}}

NotConstrained == [value |-> NoneStr, inputs |-> <<>>, force_unique |-> FALSE, is_acid |-> FALSE, evaluate |-> FALSE]

CandIdle ==
    /\ ccIn = NoCandidates
    /\ ccOut = NotConstrained

CandInit ==
    /\ ccIn \in CandidateArgs
    /\ ccOut = NotConstrained

\* global_constraints['asn_candidate'] = constrain_on_candidates(...)
ConstrainOnCandidates ==
    /\ ccOut = NotConstrained
    /\ ccOut' = constrain_on_candidates(ccIn)
    /\ UNCHANGED ccIn

\* ---- DMSBaseMixin.get_exposure_type ----
\* the keys of EXPTYPE_MAP
MappedExpTypes ==
    {"mir_darkall", "mir_darkimg", "mir_darkmrs", "mir_flatimage",
     "mir_flatmrs", "mir_flatimage-ext", "mir_flatmrs-ext", "mir_tacq",
     "nis_dark", "nis_focus", "nis_lamp", "nis_tacq",
     "nis_taconfirm", "nrc_dark", "nrc_flat", "nrc_focus",
     "nrc_led", "nrc_tacq", "nrc_taconfirm", "nrs_autoflat",
     "nrs_autowave", "nrs_confirm", "nrs_dark", "nrs_focus",
     "nrs_image", "nrs_lamp", "nrs_msata", "nrs_tacq",
     "nrs_taconfirm", "nrs_taslit", "nrs_wata"}

\* dms_base.py: Exposure EXP_TYPE to Association EXPTYPE mapping
EXPTYPE_MAP(e) ==
    CASE e = "mir_darkall" -> "dark"
       [] e = "mir_darkimg" -> "dark"
       [] e = "mir_darkmrs" -> "dark"
       [] e = "mir_flatimage" -> "flat"
       [] e = "mir_flatmrs" -> "flat"
       [] e = "mir_flatimage-ext" -> "flat"
       [] e = "mir_flatmrs-ext" -> "flat"
       [] e = "mir_tacq" -> "target_acquisition"
       [] e = "nis_dark" -> "dark"
       [] e = "nis_focus" -> "engineering"
       [] e = "nis_lamp" -> "engineering"
       [] e = "nis_tacq" -> "target_acquisition"
       [] e = "nis_taconfirm" -> "target_acquisition"
       [] e = "nrc_dark" -> "dark"
       [] e = "nrc_flat" -> "flat"
       [] e = "nrc_focus" -> "engineering"
       [] e = "nrc_led" -> "engineering"
       [] e = "nrc_tacq" -> "target_acquisition"
       [] e = "nrc_taconfirm" -> "target_acquisition"
       [] e = "nrs_autoflat" -> "autoflat"
       [] e = "nrs_autowave" -> "autowave"
       [] e = "nrs_confirm" -> "target_acquisition"
       [] e = "nrs_dark" -> "dark"
       [] e = "nrs_focus" -> "engineering"
       [] e = "nrs_image" -> "engineering"
       [] e = "nrs_lamp" -> "engineering"
       [] e = "nrs_msata" -> "target_acquisition"
       [] e = "nrs_tacq" -> "target_acquisition"
       [] e = "nrs_taconfirm" -> "target_acquisition"
       [] e = "nrs_taslit" -> "target_acquisition"
       [] e = "nrs_wata" -> "target_acquisition"

\* dms_base.py: SPECIAL_EXPTYPES, the attributes that mark a special type
SPECIAL_EXPTYPES(special) ==
    CASE special = "psf" -> <<"is_psf">>
      [] special = "imprint" -> <<"is_imprt">>
      [] special = "background" -> <<"bkgdtarg">>

SpecialNames == {"psf", "imprint", "background"}

\* the orders in which SPECIAL_EXPTYPES.items() can iterate
SpecialOrders == {o \in [1..3 -> SpecialNames] : \A i, j \in 1..3 : i # j => o[i] # o[j]}

\* the loop over the special modifiers: the first one in iteration order
\* whose source attribute the item has with a valid value
RECURSIVE FirstSpecial(_, _)
FirstSpecial(it, order) ==
    IF order = <<>> THEN "science"
    ELSE IF item_getattr(it, SPECIAL_EXPTYPES(Head(order))) # "KeyError" THEN Head(order)
    ELSE FirstSpecial(it, Tail(order))

\* get_exposure_type that never looks at the special modifiers
get_exposure_type_nospecial(it, default, order) ==
    IF it.exp_type = Missing THEN "LookupError"
    ELSE LET result == IF it.exp_type \in MappedExpTypes
                       THEN EXPTYPE_MAP(it.exp_type) ELSE default
         IN IF result = PyNone THEN "LookupError" ELSE result

\* DMSBaseMixin.get_exposure_type: Determine the exposure type of a pool item
get_exposure_type(it, default, order) ==
    IF it.exp_type = Missing THEN "LookupError"
    ELSE LET result == IF it.exp_type \in MappedExpTypes
                       THEN EXPTYPE_MAP(it.exp_type) ELSE default
         IN IF result = PyNone THEN "LookupError"
            ELSE IF result = "science" THEN FirstSpecial(it, order)
            ELSE result

UnmappedExpTypes == {"mir_image", "nrs_ifu", "null"}
ExposureItems ==
    [exp_type : {Missing} \cup MappedExpTypes \cup UnmappedExpTypes,
     is_psf : {Missing, "t", "f"},
     is_imprt : {Missing, "t", "null"},
     bkgdtarg : {Missing, "t", "n"}]
DefaultValues == {"science", PyNone, "flat"}

ExpIdle ==
    /\ etItem = [exp_type |-> Missing, is_psf |-> Missing, is_imprt |-> Missing, bkgdtarg |-> Missing]
    /\ etDefault = "science"
    /\ etOrder = <<"psf", "imprint", "background">>
    /\ etResult = "NotCalled"

ExpInit ==
    /\ etItem \in ExposureItems
    /\ etDefault \in DefaultValues
    /\ etOrder \in SpecialOrders
    /\ etResult = "NotCalled"

GetExposureType ==
    /\ etResult = "NotCalled"
    /\ etResult' = get_exposure_type(etItem, etDefault, etOrder)
    /\ UNCHANGED <<etItem, etDefault, etOrder>>

\* ---- generate(pool, rules): the generator and its reprocess list ----
MaxPool == 3

\* the rules a registry of a run can hold, in the order they are tried
IMAGE_RULE == "Asn_Image"
DARK_RULE == "Asn_Dark"
\* a rule that makes a new association from every offer of an nrs_ifu item
\* and asks for the item to be offered again
EACH_RULE == "Asn_Each"
GenClasses == {IMAGE_RULE, DARK_RULE, EACH_RULE}
Registries == {<<IMAGE_RULE, DARK_RULE>>, <<IMAGE_RULE, DARK_RULE, EACH_RULE>>}

\* the rows a pool is made of
PoolItem(exp_type, asn_candidate, bkgdtarg) ==
    [program |-> "1", exp_type |-> exp_type, asn_candidate |-> asn_candidate, bkgdtarg |-> bkgdtarg]
ImageO001 == PoolItem("mir_image", "o001", Missing)
ImageO002 == PoolItem("mir_image", "o002", Missing)
DarkItem == PoolItem("mir_dark", "o001", Missing)
NoExpTypeItem == PoolItem(Missing, "o001", Missing)
BackgroundItem == PoolItem("mir_image", "o002", "t")
IfuItem == PoolItem("nrs_ifu", "o001", Missing)
PoolItems == {ImageO001, ImageO002, DarkItem, NoExpTypeItem, BackgroundItem, IfuItem}
Pools == UNION {[1..n -> PoolItems] : n \in 0..MaxPool}

\* the counters as the process starts, and after reset_sequence on each rule
SharedCounter == [c \in GenClasses \cup {BaseClass} |-> IF c = BaseClass THEN CounterStart ELSE 0]
OwnCounters == [c \in GenClasses \cup {BaseClass} |-> CounterStart]

\* the type a rule classifies a pool row as
Classify(it) == get_exposure_type(it, "science", <<"psf", "imprint", "background">>)

\* the item is added to the associations at the positions ks that do not
\* have it yet
AddTo(alist, ks, i) ==
    [k \in 1..Len(alist) |->
        IF k \in ks /\ i \notin SeqToSet(alist[k].members)
        THEN [alist[k] EXCEPT !.members = Append(@, i)] ELSE alist[k]]

\* a new association of the rule with the item as its first member
NewAsn(st, rule, acid, i) ==
    LET n == next_sequence(st.own, rule)
    IN [st EXCEPT !.asns = Append(@, [rule |-> rule, acid |-> acid, sequence |-> n.value, members |-> <<i>>]),
                  !.own = n.own, !.new = TRUE]

HasScience(pool, a) == \E m \in SeqToSet(a.members) : Classify(pool[m]) = "science"

\* the imaging rule is offered item i of the pool
OfferImage(st, pool, i) ==
    LET it == pool[i]
        t == Classify(it)
        same == {k \in DOMAIN st.asns : st.asns[k].rule = IMAGE_RULE /\ st.asns[k].acid = it.asn_candidate}
        targets == {k \in DOMAIN st.asns : st.asns[k].rule = IMAGE_RULE /\ HasScience(pool, st.asns[k])}
    IN IF t = "LookupError" THEN [st EXCEPT !.raised = TRUE]
       ELSE IF it.exp_type # "mir_image" \/ it.asn_candidate = Missing THEN st
       ELSE IF t = "background"
            THEN IF targets = {} THEN [st EXCEPT !.deferred = TRUE]
                 ELSE [st EXCEPT !.asns = AddTo(@, targets, i), !.existing = TRUE]
       ELSE IF t = "science"
            THEN IF same = {} THEN NewAsn(st, IMAGE_RULE, it.asn_candidate, i)
                 ELSE [st EXCEPT !.asns = AddTo(@, same, i), !.existing = TRUE]
       ELSE st

\* the dark rule is offered item i of the pool
OfferDark(st, pool, i) ==
    LET it == pool[i]
        t == Classify(it)
        same == {k \in DOMAIN st.asns : st.asns[k].rule = DARK_RULE}
    IN IF t = "LookupError" THEN [st EXCEPT !.raised = TRUE]
       ELSE IF it.exp_type # "mir_dark" THEN st
       ELSE IF same = {} THEN NewAsn(st, DARK_RULE, "", i)
       ELSE [st EXCEPT !.asns = AddTo(@, same, i), !.existing = TRUE]

\* the rule that asks for its item again is offered item i of the pool
OfferEach(st, pool, i) ==
    LET it == pool[i]
        t == Classify(it)
    IN IF t = "LookupError" THEN [st EXCEPT !.raised = TRUE]
       ELSE IF it.exp_type # "nrs_ifu" THEN st
       ELSE [NewAsn(st, EACH_RULE, "", i) EXCEPT !.deferred = TRUE]

Offer(st, rule, pool, i) ==
    CASE rule = IMAGE_RULE -> OfferImage(st, pool, i)
      [] rule = DARK_RULE -> OfferDark(st, pool, i)
      [] rule = EACH_RULE -> OfferEach(st, pool, i)

\* every rule of the registry is attempted for the item, in order
RECURSIVE OfferAll(_, _, _, _)
OfferAll(st, rules, pool, i) ==
    IF rules = <<>> THEN st
    ELSE OfferAll(Offer(st, Head(rules), pool, i), Tail(rules), pool, i)

Offered(alist, own) ==
    [asns |-> alist, own |-> own, new |-> FALSE, existing |-> FALSE, deferred |-> FALSE, raised |-> FALSE]

\* what the generator does with a lookup error of one rule on one item
OnLookupError_abort == "abort"
OnLookupError == "continue"

\* the item counts as in an association only when it made a new one
MarksMember_new(st) == st.new
\* whether the item offered went into an association
MarksMember(st) == st.new \/ st.existing

\* the reprocess cycles a run may take: one more than the pool size
CycleLimit_more(pool) == Len(pool) + 1
\* the reprocess cycles a run may take
CycleLimit(pool) == Len(pool)

\* the deferred items are at a fixed point only when none is left
FixedPoint_empty(reprocess, cycle, changed) == reprocess = <<>>
\* the deferred items are at a fixed point: none is left, or a reprocess
\* cycle has put no item into an association
FixedPoint(reprocess, cycle, changed) == reprocess = <<>> \/ (cycle > 0 /\ ~changed)

\* the pool rows that are in no association
Orphans(pool, matched) == (1..Len(pool)) \ matched

GenIdle ==
    /\ gPool = <<>>
    /\ gRegistry = <<IMAGE_RULE, DARK_RULE>>
    /\ gSeq = SharedCounter
    /\ gQueue = <<>>
    /\ gReprocess = <<>>
    /\ gCycle = 0
    /\ gChanged = FALSE
    /\ gAsns = <<>>
    /\ gMatched = {}
    /\ gOrphaned = {}
    /\ gPhase = "idle"
    /\ gTries = <<>>
    /\ gDeferred = {}

GenInit ==
    /\ gPool \in Pools
    /\ gRegistry \in Registries
    /\ gSeq \in {SharedCounter, OwnCounters}
    /\ gQueue = [k \in 1..Len(gPool) |-> k]
    /\ gReprocess = <<>>
    /\ gCycle = 0
    /\ gChanged = FALSE
    /\ gAsns = <<>>
    /\ gMatched = {}
    /\ gOrphaned = {}
    /\ gPhase = "run"
    /\ gTries = [k \in 1..Len(gPool) |-> 0]
    /\ gDeferred = {}

\* the next item of the work list is attempted against every rule
ProcessItem ==
    /\ gPhase = "run"
    /\ gQueue # <<>>
    /\ LET i == Head(gQueue)
           st == OfferAll(Offered(gAsns, gSeq), gRegistry, gPool, i)
       IN /\ gQueue' = Tail(gQueue)
          /\ gTries' = [gTries EXCEPT ![i] = @ + 1]
          /\ IF st.raised /\ OnLookupError = "abort"
             THEN /\ gPhase' = "aborted"
                  /\ UNCHANGED <<gSeq, gReprocess, gChanged, gAsns, gMatched, gDeferred>>
             ELSE /\ gAsns' = st.asns
                  /\ gSeq' = st.own
                  /\ gMatched' = IF MarksMember(st) THEN gMatched \cup {i} ELSE gMatched
                  /\ gReprocess' = IF st.deferred THEN Append(gReprocess, i) ELSE gReprocess
                  /\ gDeferred' = IF st.deferred THEN gDeferred \cup {i} ELSE gDeferred
                  /\ gChanged' = (gChanged \/ st.new \/ st.existing)
                  /\ UNCHANGED gPhase
    /\ UNCHANGED <<gPool, gRegistry, gCycle, gOrphaned>>

\* the pass is over and deferred items are left: they are retried
NextCycle ==
    /\ gPhase = "run"
    /\ gQueue = <<>>
    /\ ~FixedPoint(gReprocess, gCycle, gChanged)
    /\ gCycle < CycleLimit(gPool)
    /\ gCycle' = gCycle + 1
    /\ gQueue' = gReprocess
    /\ gReprocess' = <<>>
    /\ gChanged' = FALSE
    /\ UNCHANGED <<gPool, gRegistry, gSeq, gAsns, gMatched, gOrphaned, gPhase, gTries, gDeferred>>

\* the run completes: the associations and the orphaned rows are returned
Finish ==
    /\ gPhase = "run"
    /\ gQueue = <<>>
    /\ FixedPoint(gReprocess, gCycle, gChanged)
    /\ gPhase' = "done"
    /\ gOrphaned' = Orphans(gPool, gMatched)
    /\ UNCHANGED <<gPool, gRegistry, gSeq, gQueue, gReprocess, gCycle, gChanged, gAsns, gMatched, gTries, gDeferred>>

\* no fixed point within the cycles allowed: the run fails
Fail ==
    /\ gPhase = "run"
    /\ gQueue = <<>>
    /\ ~FixedPoint(gReprocess, gCycle, gChanged)
    /\ gCycle >= CycleLimit(gPool)
    /\ gPhase' = "failed"
    /\ UNCHANGED <<gPool, gRegistry, gSeq, gQueue, gReprocess, gCycle, gChanged, gAsns, gMatched, gOrphaned, gTries, gDeferred>>

\* ---- the validity tests of an association ----
MaxEntries == 3

\* the tests a rule can attach; an entry is given by the tests whose check
\* it passes
ValidityTests == {"has_science", "has_target", "has_background"}
Entries == SUBSET ValidityTests

\* update_validity that takes the check of every entry
update_validity_nolatch(validity, evals, entry) ==
    [validity |-> [t \in DOMAIN validity |-> t \in entry],
     evals |-> [t \in DOMAIN validity |-> evals[t] + 1]]

\* DMSBaseMixin.update_validity: test['validated'] of every test, and how
\* often test['check'] has been called
update_validity(validity, evals, entry) ==
    [validity |-> [t \in DOMAIN validity |-> IF ~validity[t] THEN t \in entry ELSE validity[t]],
     evals |-> [t \in DOMAIN validity |-> IF ~validity[t] THEN evals[t] + 1 ELSE evals[t]]]

\* validate that is content with one validated test
validate_any(validity) ==
    IF DOMAIN validity = {} \/ \E t \in DOMAIN validity : validity[t] THEN "True"
    ELSE "AssociationNotValidError"

\* DMSBaseMixin.validate on an association of a DMS rule
validate(validity) ==
    IF \A t \in DOMAIN validity : validity[t] THEN "True"
    ELSE "AssociationNotValidError"

ValidIdle ==
    /\ vValidity = <<>>
    /\ vEvals = <<>>
    /\ vCount = 0
    /\ vOp = [op |-> "init", entry |-> {}, result |-> ""]

\* the association as created: no test validated, no check called
ValidInit ==
    /\ \E attached \in SUBSET ValidityTests :
          /\ vValidity = [t \in attached |-> FALSE]
          /\ vEvals = [t \in attached |-> 0]
    /\ vCount = 0
    /\ vOp = [op |-> "init", entry |-> {}, result |-> ""]

UpdateValidity(entry) ==
    /\ vCount < MaxEntries
    /\ LET r == update_validity(vValidity, vEvals, entry)
       IN /\ vValidity' = r.validity
          /\ vEvals' = r.evals
    /\ vCount' = vCount + 1
    /\ vOp' = [op |-> "update_validity", entry |-> entry, result |-> ""]

Validate ==
    /\ vOp' = [op |-> "validate", entry |-> {}, result |-> validate(vValidity)]
    /\ UNCHANGED <<vValidity, vEvals, vCount>>

\* ---- composite constraints and their reduction ----
MaxChildren == 3

\* the three results of evaluating a constraint on an item
MATCHED == "Applicable-and-matched"
FAILED == "Applicable-and-failed"
NOT_APPLICABLE == "Not-applicable"

\* what evaluating a child gave, and whether the child is marked required
ChildResults == [result : {MATCHED, FAILED, NOT_APPLICABLE}, required : BOOLEAN]

\* reduction all that counts a child that is not applicable as failed
RECURSIVE Constraint_all_strict(_, _)
Constraint_all_strict(children, seen) ==
    IF children = <<>> THEN (IF seen THEN MATCHED ELSE NOT_APPLICABLE)
    ELSE IF Head(children).result = MATCHED THEN Constraint_all_strict(Tail(children), TRUE)
    ELSE FAILED

\* reduction all over the children in order; seen tells whether a child has
\* matched so far
RECURSIVE Constraint_all(_, _)
Constraint_all(children, seen) ==
    IF children = <<>> THEN (IF seen THEN MATCHED ELSE NOT_APPLICABLE)
    ELSE IF Head(children).result = FAILED THEN FAILED
    ELSE IF Head(children).result = NOT_APPLICABLE
         THEN (IF Head(children).required THEN NOT_APPLICABLE
               ELSE Constraint_all(Tail(children), seen))
    ELSE Constraint_all(Tail(children), TRUE)

\* reduction any that fails when no child is applicable
RECURSIVE Constraint_any_fails(_, _)
Constraint_any_fails(children, seen) ==
    IF children = <<>> THEN FAILED
    ELSE IF Head(children).result = MATCHED THEN MATCHED
    ELSE Constraint_any_fails(Tail(children), seen)

\* reduction any over the children in order; seen tells whether a child was
\* applicable so far
RECURSIVE Constraint_any(_, _)
Constraint_any(children, seen) ==
    IF children = <<>> THEN (IF seen THEN FAILED ELSE NOT_APPLICABLE)
    ELSE IF Head(children).result = MATCHED THEN MATCHED
    ELSE IF Head(children).result = FAILED THEN Constraint_any(Tail(children), TRUE)
    ELSE Constraint_any(Tail(children), seen)

ConsIdle ==
    /\ cChildren = <<>>
    /\ cReduce = "all"
    /\ cResult = "NotEvaluated"

ConsInit ==
    /\ cChildren \in UNION {[1..n -> ChildResults] : n \in 0..MaxChildren}
    /\ cReduce \in {"all", "any"}
    /\ cResult = "NotEvaluated"

\* the composite is evaluated: its children's results are reduced
EvaluateComposite ==
    /\ cResult = "NotEvaluated"
    /\ cResult' = IF cReduce = "all" THEN Constraint_all(cChildren, FALSE)
                  ELSE Constraint_any(cChildren, FALSE)
    /\ UNCHANGED <<cChildren, cReduce>>

\* ---- the version id of a generation run ----
MaxClock == 3
MaxRunAsns == 3

\* --version-id given without a value: const=True
VersionRequested == <<"<True>">>
\* parsed.version_id: None by default, True without a value, or the string
VersionArgs == {NoneStr, VersionRequested, <<"V", "7">>}

\* the current time as a version stamp
make_timestamp(now) == <<"2", "0", "1", "7", "T">> \o Format03d(now)

\* generate replaces a version id asked for without a value by the time
generate_version_id(arg, now) ==
    IF arg = VersionRequested THEN make_timestamp(now) ELSE arg

\* the version id of a new association, made when the association is created
create_version_id_each(arg, run_id, now) == generate_version_id(arg, now)

\* the version id that generate hands to a rule's create: the run's
create_version_id(arg, run_id, now) == run_id

\* the association that create makes in a run, with its version id
RunAsn(version_id, sequence) ==
    [program |-> <<"9", "9", "A">>, _acid |-> NoneStr,
     constraint_acid |-> <<"o", "0", "0", "1">>, version_id |-> version_id,
     asn_type |-> <<"i", "m", "a", "g", "e", "3">>, sequence |-> sequence]

VerIdle ==
    /\ verArg = NoneStr
    /\ verNow = 0
    /\ verRun = [phase |-> "idle", version_id |-> NoneStr, at |-> 0]
    /\ verAsns = <<>>

VerInit ==
    /\ verArg \in VersionArgs
    /\ verNow = 0
    /\ verRun = [phase |-> "parsed", version_id |-> NoneStr, at |-> 0]
    /\ verAsns = <<>>

\* time passes
Tick ==
    /\ verNow < MaxClock
    /\ verNow' = verNow + 1
    /\ UNCHANGED <<verArg, verRun, verAsns>>

\* Main calls generate(pool, rules, version_id=parsed.version_id)
Generate ==
    /\ verRun.phase = "parsed"
    /\ verRun' = [phase |-> "generating",
                  version_id |-> generate_version_id(verArg, verNow),
                  at |-> verNow]
    /\ UNCHANGED <<verArg, verNow, verAsns>>

\* within the run a rule creates an association, whose name is read
CreateInRun ==
    /\ verRun.phase = "generating"
    /\ Len(verAsns) < MaxRunAsns
    /\ LET asn == RunAsn(create_version_id(verArg, verRun.version_id, verNow),
                         Len(verAsns) + 1)
       IN verAsns' = Append(verAsns, [version_id |-> asn.version_id,
                                      asn_name |-> asn_name(asn).name,
                                      at |-> verNow])
    /\ UNCHANGED <<verArg, verNow, verRun>>

\* generate returns
EndRun ==
    /\ verRun.phase = "generating"
    /\ verRun' = [verRun EXCEPT !.phase = "done"]
    /\ UNCHANGED <<verArg, verNow, verAsns>>

\* ---- Constraint_TSO ----
\* a child of a composite with the result of its evaluation
Child(result, required) == [result |-> result, required |-> required]

(***************************************************************************)
(* DMSAttrConstraint(sources, value) evaluated on an item: the value is    *)
(* resolved over the sources with _EMPTY as invalid values; without a      *)
(* value the constraint is not applicable, otherwise the value is matched  *)
(* in full against the pattern, given here by its alternatives.            *)
(***************************************************************************)
DMSAttrConstraint(it, sources, alternatives) ==
    LET v == getattr_from_list(it, sources, _EMPTY)
    IN IF v = "KeyError" THEN NOT_APPLICABLE
       ELSE IF v \in alternatives THEN MATCHED
       ELSE FAILED

(***************************************************************************)
(* Constraint_TSO: all of pntgtype = science and any of tsovisit = t,      *)
(* exp_type one of '|'.join(TSO_EXP_TYPES).  No child is given a required  *)
(* mark.                                                                   *)
(***************************************************************************)
Constraint_TSO(it) ==
    Constraint_all(
        <<Child(DMSAttrConstraint(it, <<"pntgtype">>, {"science"}), FALSE),
          Child(Constraint_any(
                    <<Child(DMSAttrConstraint(it, <<"tsovisit">>, {"t"}), FALSE),
                      Child(DMSAttrConstraint(it, <<"exp_type">>,
                                SeqToSet(TSO_EXP_TYPES)), FALSE)>>,
                    FALSE), FALSE)>>,
        FALSE)

\* Constraint_TSO is evaluated on the item
EvaluateConstraintTSO ==
    /\ tsoCons = "NotEvaluated"
    /\ tsoCons' = Constraint_TSO(item)
    /\ UNCHANGED <<item, isTsoValue, otherExpTypes, tsoResult>>

\* ---- imaging_distortion of the MIRI imager ----
MaxOffset == 2

\* the filters of the input models and those the filteroffset file can hold
InputFilters == {"F560W", "F770W", "F1000W"}
TreeFilters == {"F560W", "F770W"}
Offsets == [row_offset : 0..MaxOffset, column_offset : {0, 1}]

\* the trees of a filteroffset reference file: entries for some filters
FilterOffsetTrees == UNION {[S -> Offsets] : S \in SUBSET TreeFilters}

\* the pixels the returned transform is applied to
Pixels == {<<0, 0>>, <<1, 2>>}

\* models.Shift(a) & models.Shift(b): a on the first input, b on the second
ShiftPair(a, b) == [kind |-> "Shift&Shift", first |-> a, second |-> b]
\* the model of the distortion reference file
DistortionModel == [kind |-> "distortion", first |-> 0, second |-> 0]

\* what the distortion file's model makes of a pixel: a map that does not
\* commute with shifts
Distort(p) == <<2 * p[1] + p[2], p[2] + p[1] * p[1]>>

\* one model of a chain applied to a pair
ApplyModel(m, p) ==
    IF m.kind = "Shift&Shift" THEN <<p[1] + m.first, p[2] + m.second>>
    ELSE Distort(p)

\* a | b | ...: the models applied left to right
RECURSIVE ApplyChain(_, _)
ApplyChain(chain, p) ==
    IF chain = <<>> THEN p
    ELSE ApplyChain(Tail(chain), ApplyModel(Head(chain), p))

(***************************************************************************)
(* imaging_distortion(input_model, reference_files), with the filter of    *)
(* the input model and the tree of the filteroffset file.  The first       *)
(* lookup tree[filter] raises KeyError when the filter has no entry; its   *)
(* chain is replaced by the one built under the membership test.           *)
(***************************************************************************)
imaging_distortion(filter, tree) ==
    IF filter \notin DOMAIN tree
    THEN [raised |-> "KeyError", model |-> <<>>]
    ELSE IF filter \in DOMAIN tree
         THEN [raised |-> "",
               model |-> <<ShiftPair(tree[filter].row_offset, tree[filter].column_offset),
                           DistortionModel>>]
         ELSE [raised |-> "", model |-> <<DistortionModel>>]

WcsNotCalled == [raised |-> "NotCalled", model |-> <<>>]

WcsIdle ==
    /\ wFilter = "F560W"
    /\ wTree = <<>>
    /\ wResult = WcsNotCalled
    /\ wPixel = <<>>

WcsInit ==
    /\ wFilter \in InputFilters
    /\ wTree \in FilterOffsetTrees
    /\ wResult = WcsNotCalled
    /\ wPixel = <<>>

\* imaging_distortion is called
ImagingDistortion ==
    /\ wResult = WcsNotCalled
    /\ wResult' = imaging_distortion(wFilter, wTree)
    /\ UNCHANGED <<wFilter, wTree, wPixel>>

\* the returned model is applied to a pixel
ApplyDistortion(p) ==
    /\ wResult.raised = ""
    /\ wPixel = <<>>
    /\ wPixel' = <<p, ApplyChain(wResult.model, p)>>
    /\ UNCHANGED <<wFilter, wTree, wResult>>

\* ---- specifications ----
Init == SeqInit /\ TsoIdle /\ DegIdle /\ FiltIdle /\ NameIdle /\ FragIdle /\ CandIdle /\ ExpIdle /\ GenIdle /\ ValidIdle /\ ConsIdle /\ VerIdle /\ WcsIdle
Next ==
    /\ \/ \E cls \in LoadedClasses : \E members \in MemberIdSets : CreateMatch(cls, members)
       \/ \E cls \in LoadedClasses : CreateNoMatch(cls)
       \/ \E cls \in AllClasses : ResetSequence(cls)
       \/ MainPostprocess
    /\ UNCHANGED <<tsoVars, degVars, filtVars, nameVars, fragVars, candVars, expVars, genVars, validVars, consVars, verVars, wcsVars>>
Spec == Init /\ [][Next]_vars

InitTso == TsoInit /\ DegIdle /\ SeqIdle /\ FiltIdle /\ NameIdle /\ FragIdle /\ CandIdle /\ ExpIdle /\ GenIdle /\ ValidIdle /\ ConsIdle /\ VerIdle /\ WcsIdle
NextTso == (IsItemTso \/ EvaluateConstraintTSO) /\ UNCHANGED <<degVars, seqVars, filtVars, nameVars, fragVars, candVars, expVars, genVars, validVars, consVars, verVars, wcsVars>>
SpecTso == InitTso /\ [][NextTso]_vars

InitDegraded == DegIdle /\ TsoIdle /\ SeqIdle /\ FiltIdle /\ NameIdle /\ FragIdle /\ CandIdle /\ ExpIdle /\ GenIdle /\ ValidIdle /\ ConsIdle /\ VerIdle /\ WcsIdle
NextDegraded ==
    /\ \/ NewProduct
       \/ \E m \in Members : AddMember(m)
       \/ \E m \in Members : IsMember(m)
       \/ \E p \in 1..MaxProducts : \E i \in 1..MaxMembers : RemoveMember(p, i)
       \/ UpdateDegradedStatus
       \/ UpdateAsn
    /\ UNCHANGED <<tsoVars, seqVars, filtVars, nameVars, fragVars, candVars, expVars, genVars, validVars, consVars, verVars, wcsVars>>
SpecDegraded == InitDegraded /\ [][NextDegraded]_vars

InitFilter == FiltInit /\ TsoIdle /\ DegIdle /\ SeqIdle /\ NameIdle /\ FragIdle /\ CandIdle /\ ExpIdle /\ GenIdle /\ ValidIdle /\ ConsIdle /\ VerIdle /\ WcsIdle
NextFilter ==
    /\ \/ FilterOnce
       \/ FilterAgain
    /\ UNCHANGED <<tsoVars, degVars, seqVars, nameVars, fragVars, candVars, expVars, genVars, validVars, consVars, verVars, wcsVars>>
SpecFilter == InitFilter /\ [][NextFilter]_vars

InitName == NameInit /\ TsoIdle /\ DegIdle /\ SeqIdle /\ FiltIdle /\ FragIdle /\ CandIdle /\ ExpIdle /\ GenIdle /\ ValidIdle /\ ConsIdle /\ VerIdle /\ WcsIdle
NextName ==
    /\ \E k \in 1..2 : AsnName(k)
    /\ UNCHANGED <<tsoVars, degVars, seqVars, filtVars, fragVars, candVars, expVars, genVars, validVars, consVars, verVars, wcsVars>>
SpecName == InitName /\ [][NextName]_vars

InitFrag == FragInit /\ TsoIdle /\ DegIdle /\ SeqIdle /\ FiltIdle /\ NameIdle /\ CandIdle /\ ExpIdle /\ GenIdle /\ ValidIdle /\ ConsIdle /\ VerIdle /\ WcsIdle
NextFrag ==
    /\ \E k \in 1..2 : GetFragment(k)
    /\ UNCHANGED <<tsoVars, degVars, seqVars, filtVars, nameVars, candVars, expVars, genVars, validVars, consVars, verVars, wcsVars>>
SpecFrag == InitFrag /\ [][NextFrag]_vars

InitCand == CandInit /\ TsoIdle /\ DegIdle /\ SeqIdle /\ FiltIdle /\ NameIdle /\ FragIdle /\ ExpIdle /\ GenIdle /\ ValidIdle /\ ConsIdle /\ VerIdle /\ WcsIdle
NextCand ==
    /\ ConstrainOnCandidates
    /\ UNCHANGED <<tsoVars, degVars, seqVars, filtVars, nameVars, fragVars, expVars, genVars, validVars, consVars, verVars, wcsVars>>
SpecCand == InitCand /\ [][NextCand]_vars

InitExp == ExpInit /\ TsoIdle /\ DegIdle /\ SeqIdle /\ FiltIdle /\ NameIdle /\ FragIdle /\ CandIdle /\ GenIdle /\ ValidIdle /\ ConsIdle /\ VerIdle /\ WcsIdle
NextExp ==
    /\ GetExposureType
    /\ UNCHANGED <<tsoVars, degVars, seqVars, filtVars, nameVars, fragVars, candVars, genVars, validVars, consVars, verVars, wcsVars>>
SpecExp == InitExp /\ [][NextExp]_vars

InitGen == GenInit /\ TsoIdle /\ DegIdle /\ SeqIdle /\ FiltIdle /\ NameIdle /\ FragIdle /\ CandIdle /\ ExpIdle /\ ValidIdle /\ ConsIdle /\ VerIdle /\ WcsIdle
NextGen ==
    /\ \/ ProcessItem
       \/ NextCycle
       \/ Finish
       \/ Fail
    /\ UNCHANGED <<tsoVars, degVars, seqVars, filtVars, nameVars, fragVars, candVars, expVars, validVars, consVars, verVars, wcsVars>>
SpecGen == InitGen /\ [][NextGen]_vars
\* the generator is one synchronous loop: whatever step is next is taken
SpecGenFair == SpecGen /\ WF_vars(NextGen)

InitValid == ValidInit /\ TsoIdle /\ DegIdle /\ SeqIdle /\ FiltIdle /\ NameIdle /\ FragIdle /\ CandIdle /\ ExpIdle /\ GenIdle /\ ConsIdle /\ VerIdle /\ WcsIdle
NextValid ==
    /\ \/ \E entry \in Entries : UpdateValidity(entry)
       \/ Validate
    /\ UNCHANGED <<tsoVars, degVars, seqVars, filtVars, nameVars, fragVars, candVars, expVars, genVars, consVars, verVars, wcsVars>>
SpecValid == InitValid /\ [][NextValid]_vars

InitCons == ConsInit /\ TsoIdle /\ DegIdle /\ SeqIdle /\ FiltIdle /\ NameIdle /\ FragIdle /\ CandIdle /\ ExpIdle /\ GenIdle /\ ValidIdle /\ VerIdle /\ WcsIdle
NextCons ==
    /\ EvaluateComposite
    /\ UNCHANGED <<tsoVars, degVars, seqVars, filtVars, nameVars, fragVars, candVars, expVars, genVars, validVars, verVars, wcsVars>>
SpecCons == InitCons /\ [][NextCons]_vars

InitVer == VerInit /\ TsoIdle /\ DegIdle /\ SeqIdle /\ FiltIdle /\ NameIdle /\ FragIdle /\ CandIdle /\ ExpIdle /\ GenIdle /\ ValidIdle /\ ConsIdle /\ WcsIdle
NextVer ==
    /\ \/ Tick
       \/ Generate
       \/ CreateInRun
       \/ EndRun
    /\ UNCHANGED <<tsoVars, degVars, seqVars, filtVars, nameVars, fragVars, candVars, expVars, genVars, validVars, consVars, wcsVars>>
SpecVer == InitVer /\ [][NextVer]_vars

InitWcs == WcsInit /\ TsoIdle /\ DegIdle /\ SeqIdle /\ FiltIdle /\ NameIdle /\ FragIdle /\ CandIdle /\ ExpIdle /\ GenIdle /\ ValidIdle /\ ConsIdle /\ VerIdle
NextWcs ==
    /\ \/ ImagingDistortion
       \/ \E p \in Pixels : ApplyDistortion(p)
    /\ UNCHANGED <<tsoVars, degVars, seqVars, filtVars, nameVars, fragVars, candVars, expVars, genVars, validVars, consVars, verVars>>
SpecWcs == InitWcs /\ [][NextWcs]_vars

\* ---- properties ----
\* C1: an item whose pntgtype is present and is not 'science' is never TSO,
\* whatever its tsovisit and exp_type, the extra exposure types and the
\* association's own is_tso constraint are.
C1_NonScienceNeverTso ==
    (tsoResult # "NotCalled" /\ item.pntgtype # Missing /\ item.pntgtype # "science")
        => tsoResult = "False"

\* a non-science item carrying every other TSO indicator has been classified
C1_Witness ==
    /\ tsoResult = "False"
    /\ item.pntgtype = "target_acquisition"
    /\ item.tsovisit = "t"
    /\ item.exp_type = "nrc_tsimage"
    /\ isTsoValue = "t"
    /\ otherExpTypes # {}

Updated(op) == op \in {"update_degraded_status", "update_asn"}

\* C2: once degraded_status is NOT_OK it is NOT_OK after every later
\* operation on the association.
C2_DegradedStays ==
    [][degraded = _DEGRADED_STATUS_NOTOK => degraded' = _DEGRADED_STATUS_NOTOK]_vars

\* the status is still NOT_OK after an update that found no degraded member
C2_Witness ==
    /\ degraded = _DEGRADED_STATUS_NOTOK
    /\ Updated(lastOp)
    /\ ~AnyDegraded(products)

\* C3: an update that starts from OK ends with NOT_OK exactly when some
\* member of some product has an exposerr outside the sentinel set.
C3_DegradedIffAnyMember ==
    [][(degraded = _DEGRADED_STATUS_OK /\ Updated(lastOp'))
          => (degraded' = _DEGRADED_STATUS_NOTOK <=> AnyDegraded(products))]_vars

\* the degraded member is in an earlier product, the current product's
\* members carry a sentinel or no exposerr
C3_Witness ==
    /\ Updated(lastOp)
    /\ degraded = _DEGRADED_STATUS_NOTOK
    /\ Len(products) = 2
    /\ \E i \in 1..Len(products[1]) : MemberDegraded(products[1][i])
    /\ Len(products[2]) > 0
    /\ \A i \in 1..Len(products[2]) : ~MemberDegraded(products[2][i])

\* the next sequence number a class's create would assign
NextValue(own, cls) == own[SequenceOwner(own, cls)]

\* C4: the sequence numbers a rule class assigns between resets of its
\* counter are strictly increasing, and the number a class would assign
\* next gets smaller only in a reset_sequence step.
C4_IncreasingUntilReset ==
    /\ [](\A c \in LoadedClasses : \A i, j \in 1..Len(issuedSeq[c]) :
             i < j => issuedSeq[c][i] < issuedSeq[c][j])
    /\ [][(\E c \in LoadedClasses : NextValue(ownSeq', c) < NextValue(ownSeq, c))
             => seqOp'.op = "reset_sequence"]_vars

\* a class that was reset itself has created two associations since
C4_Witness ==
    \E c \in LoadedClasses :
        /\ ownSeq[c] # 0
        /\ Len(issuedSeq[c]) >= 2
        /\ seqOp.op = "create"

\* C5: the n-th association a rule class creates since its last reset has
\* sequence n, whatever the other rule classes created in between.
C5_PerClassCount ==
    \A c \in LoadedClasses : \A i \in 1..Len(issuedSeq[c]) : issuedSeq[c][i] = i

Positions(c) == {i \in 1..Len(asns) : asns[i].cls = c}

\* C9: after Main's resequencing the sequence numbers of each rule class in
\* the final list are exactly 1..k and increase in list order.
C9_DenseAfterResequence ==
    (phase = "done" /\ Discover(mode)) =>
        \A c \in LoadedClasses :
            /\ {asns[i].sequence : i \in Positions(c)} = 1..Cardinality(Positions(c))
            /\ \A i, j \in Positions(c) : i < j => asns[i].sequence < asns[j].sequence

\* three associations were created, the first discovered one was discarded
\* as equal to a candidate, the third created is now the first of its class
C9_Witness ==
    /\ phase = "done"
    /\ Discover(mode)
    /\ Len(asns) = 2
    /\ issuedSeq["discover_Asn_Image"] = <<1, 3>>
    /\ \E i \in 1..Len(asns) :
          /\ asns[i].cls = "discover_Asn_Image"
          /\ asns[i].id = 3
          /\ asns[i].sequence = 1

IsCandidate(a) == RegistryName(a.cls) = CANDIDATE_RULESET
IsDiscovered(a) == RegistryName(a.cls) = DISCOVER_RULESET

\* C6: the result holds no discovered association equal to a candidate of
\* the input, and holds every discovered association of the input that is
\* unequal to all candidates.
C6_FilterRemovesExactlyEqual ==
    fStage >= 1 =>
        /\ \A i \in 1..Len(fOut1) : IsDiscovered(fOut1[i]) =>
              ~\E j \in 1..Len(fIn) : IsCandidate(fIn[j]) /\ AsnEq(fOut1[i], fIn[j])
        /\ \A j \in 1..Len(fIn) :
              (IsDiscovered(fIn[j])
               /\ \A k \in 1..Len(fIn) : IsCandidate(fIn[k]) => ~AsnEq(fIn[j], fIn[k]))
              => \E i \in 1..Len(fOut1) : fOut1[i] = fIn[j]

\* of two discovered associations one equals a candidate and is gone, the
\* other equals no candidate and is in the result
C6_Witness ==
    /\ fStage >= 1
    /\ \E d1, d2, c1 \in 1..Len(fIn) :
          /\ d1 # d2
          /\ IsDiscovered(fIn[d1]) /\ IsDiscovered(fIn[d2]) /\ IsCandidate(fIn[c1])
          /\ AsnEq(fIn[d1], fIn[c1]) /\ ~AsnEq(fIn[d2], fIn[c1])
          /\ ~\E i \in 1..Len(fOut1) : fOut1[i] = fIn[d1]
          /\ \E i \in 1..Len(fOut1) : fOut1[i] = fIn[d2]

\* C7: applying filter_discovered_only to its own result gives that result.
C7_FilterIdempotent == fStage = 2 => fOut2 = fOut1

\* the first application removed something and left both kinds
C7_Witness ==
    /\ fStage = 2
    /\ Len(fOut1) < Len(fIn)
    /\ \E i \in 1..Len(fOut1) : IsDiscovered(fOut1[i])
    /\ \E i \in 1..Len(fOut1) : IsCandidate(fOut1[i])

\* C8: without keep_candidates the result holds no candidate association;
\* with it every candidate association of the input is there exactly once.
C8_KeepCandidates ==
    fStage >= 1 =>
        /\ ~fKeep => \A i \in 1..Len(fOut1) : ~IsCandidate(fOut1[i])
        /\ fKeep => \A j \in 1..Len(fIn) : IsCandidate(fIn[j]) =>
               Cardinality({i \in 1..Len(fOut1) : fOut1[i] = fIn[j]}) = 1

\* candidates were dropped from a result that is not empty
C8_Witness ==
    /\ fStage >= 1
    /\ ~fKeep
    /\ \E j \in 1..Len(fIn) : IsCandidate(fIn[j])
    /\ Len(fOut1) > 0

\* what the name is said to depend on
NameKey(asn) == <<asn.program, Acid(asn), asn.asn_type, asn.version_id, asn.sequence>>

HasUpper(str) == \E k \in 1..Len(str) : \E u \in 1..Len(UpperChars) : str[k] = UpperChars[u]

\* C10: two associations with the same program, acid, type, version id and
\* sequence number have the same asn_name, and no asn_name holds an
\* uppercase character.
C10_NameDeterministicLowercase ==
    /\ \A k \in DOMAIN nName : nName[k].raised = "" => ~HasUpper(nName[k].name)
    /\ \A k, l \in DOMAIN nName :
          (nName[k] # NotRead /\ nName[l] # NotRead /\ NameKey(nAsn[k]) = NameKey(nAsn[l]))
              => nName[k] = nName[l]

\* two associations that get the same acid by different routes, with an
\* uppercase program, acid, type and version id, have both been named
C10_Witness ==
    /\ nName[1].raised = "" /\ nName[2].raised = ""
    /\ nAsn[1] # nAsn[2]
    /\ NameKey(nAsn[1]) = NameKey(nAsn[2])
    /\ HasUpper(nAsn[1].program) /\ HasUpper(Acid(nAsn[1]))
    /\ HasUpper(nAsn[1].asn_type) /\ nAsn[1].version_id # NoneStr
    /\ HasUpper(nAsn[1].version_id)
    /\ nName[1].name = nName[2].name

\* the pieces of a string between the separators
RECURSIVE SplitFrom(_, _, _)
SplitFrom(str, sep, cur) ==
    IF str = <<>> THEN <<cur>>
    ELSE IF Head(str) = sep THEN <<cur>> \o SplitFrom(Tail(str), sep, <<>>)
    ELSE SplitFrom(Tail(str), sep, Append(cur, Head(str)))
Split(str, sep) == SplitFrom(str, sep, <<>>)

IsDigit(ch) == \E d \in 1..Len(DigitChars) : DigitChars[d] = ch

\* the number a string of decimal digits denotes
RECURSIVE ParseNat(_)
ParseNat(str) ==
    IF str = <<>> THEN 0
    ELSE 10 * ParseNat(SubSeq(str, 1, Len(str) - 1))
         + ((CHOOSE d \in 1..Len(DigitChars) : DigitChars[d] = str[Len(str)]) - 1)

\* a version id was given: neither None nor the empty string
VersionSupplied(asn) == asn.version_id # NoneStr /\ asn.version_id # <<>>

\* C11: the name has the version stamp as its second field exactly when a
\* version id was supplied; the sequence number is the field before 'asn',
\* in decimal, zero-padded to at least 3 digits.
C11_TemplateByVersionId ==
    \A k \in DOMAIN nName : nName[k].raised = "" =>
        LET f == Split(nName[k].name, "_")
            a == nAsn[k]
            n == Len(f)
        IN /\ n = IF VersionSupplied(a) THEN 5 ELSE 4
           /\ f[1] = Lower(<<"j", "w">> \o a.program \o <<"-">> \o Acid(a))
           /\ VersionSupplied(a) => f[2] = Lower(a.version_id)
           /\ f[n - 2] = Lower(a.asn_type)
           /\ f[n] = <<"a", "s", "n">>
           /\ \A i \in 1..Len(f[n - 1]) : IsDigit(f[n - 1][i])
           /\ ParseNat(f[n - 1]) = a.sequence
           /\ Len(f[n - 1]) = IF a.sequence < 1000 THEN 3 ELSE Len(Decimal(a.sequence))

\* a name with the stamp and a name without it have been read, both with
\* sequence 7 written 007
C11_Witness ==
    /\ nName[1].raised = "" /\ nName[2].raised = ""
    /\ VersionSupplied(nAsn[1]) /\ nAsn[2].version_id = NoneStr
    /\ nAsn[1].sequence = 7 /\ nAsn[2].sequence = 7
    /\ Len(Split(nName[1].name, "_")) = 5
    /\ Split(nName[2].name, "_")[3] = <<"0", "0", "7">>

\* the values the optical element constraints of an association found
AllOptFound(cons) ==
    cons["opt_elem"].found_values \o cons["opt_elem2"].found_values
    \o cons["opt_elem3"].found_values

FoundTheTwo(cons) ==
    /\ Len(AllOptFound(cons)) = 2
    /\ SeqToSet(AllOptFound(cons)) = {<<"F", "7", "7", "0", "W">>, <<"f", "5", "6", "0", "w">>}

NoOptFound(cons) == \A v \in SeqToSet(AllOptFound(cons)) : v \in EmptyStrs

\* C12 as stated: 'clear' without a found optical element, 'f560w-f770w'
\* for the found values 'F770W' and 'f560w'.
C12_OptElementLowercased ==
    \A k \in DOMAIN pnOut : (pnKind = "opt_element" /\ pnOut[k] # FragNotRead) =>
        /\ NoOptFound(pnCons[k]) => pnOut[k].value = <<"c", "l", "e", "a", "r">>
        /\ FoundTheTwo(pnCons[k]) => pnOut[k].value = <<"f", "5", "6", "0", "w", "-", "f", "7", "7", "0", "w">>

\* C12 amended: 'clear' without a found optical element; for the found
\* values 'F770W' and 'f560w' the fragment is 'f560w-F770W', sorted without
\* regard to case and with the case of the found values kept.
C12_OptElementSorted ==
    \A k \in DOMAIN pnOut : (pnKind = "opt_element" /\ pnOut[k] # FragNotRead) =>
        /\ NoOptFound(pnCons[k]) => pnOut[k].value = <<"c", "l", "e", "a", "r">>
        /\ FoundTheTwo(pnCons[k]) => pnOut[k].value = <<"f", "5", "6", "0", "w", "-", "F", "7", "7", "0", "W">>

\* the two values were found in the order F770W, f560w by one constraint in
\* the first association; the second has only a sentinel and is 'clear'
C12_Witness ==
    /\ pnKind = "opt_element"
    /\ pnCons[1]["opt_elem"].found_values = <<<<"F", "7", "7", "0", "W">>, <<"f", "5", "6", "0", "w">>>>
    /\ pnOut[1].value = <<"f", "5", "6", "0", "w", "-", "F", "7", "7", "0", "W">>
    /\ pnCons[2]["opt_elem3"].found_values = <<<<"n", "u", "l", "l">>>>
    /\ pnOut[2].value = <<"c", "l", "e", "a", "r">>

SameFound(c1, c2) ==
    \A n \in ConstraintNames :
        /\ c1[n].defined = c2[n].defined
        /\ SeqToSet(c1[n].found_values) = SeqToSet(c2[n].found_values)

\* C13: a fragment depends on the set of found values only, not on the
\* order in which they were found.
C13_FragmentOrderIndependent ==
    (pnOut # <<>> /\ pnOut[1] # FragNotRead /\ pnOut[2] # FragNotRead
     /\ SameFound(pnCons[1], pnCons[2]))
        => pnOut[1] = pnOut[2]

\* C14: for a non-empty list of ids the match value is '.+(' then the ids
\* joined with '|' then ').+' (for o001, o002: '.+(o001|o002).+'); for None
\* or an empty list it is None.
C14_CandidateMatchValue ==
    ccOut # NotConstrained =>
        LET v == ccOut.value
        IN IF ~ccIn.isNone /\ ccIn.list # <<>>
           THEN /\ v # NoneStr
                /\ Len(v) >= 6
                /\ SubSeq(v, 1, 3) = <<".", "+", "(">>
                /\ SubSeq(v, Len(v) - 2, Len(v)) = <<")", ".", "+">>
                /\ Split(SubSeq(v, 4, Len(v) - 3), "|") = ccIn.list
                /\ ccIn.list = <<<<"o", "0", "0", "1">>, <<"o", "0", "0", "2">>>> => v = <<".", "+", "(", "o", "0", "0", "1", "|", "o", "0", "0", "2", ")", ".", "+">>
           ELSE v = NoneStr

C14_Witness ==
    /\ ccIn = CandidateList(<<<<"o", "0", "0", "1">>, <<"o", "0", "0", "2">>>>)
    /\ ccOut.value = <<".", "+", "(", "o", "0", "0", "1", "|", "o", "0", "0", "2", ")", ".", "+">>
    /\ ccOut.inputs = <<"asn_candidate">>

\* the special types whose source attribute the item has with a valid value
SpecialsOf(it) == {s \in SpecialNames : item_getattr(it, SPECIAL_EXPTYPES(s)) # "KeyError"}

\* C20 as stated: a lookup error without exp_type; the table's type for a
\* mapped exp_type; the default for an unmapped one, and a lookup error when
\* that default is None.
C20_ExposureTypeDefault ==
    etResult # "NotCalled" =>
        IF etItem.exp_type = Missing THEN etResult = "LookupError"
        ELSE IF etItem.exp_type \in MappedExpTypes THEN etResult = EXPTYPE_MAP(etItem.exp_type)
        ELSE IF etDefault = PyNone THEN etResult = "LookupError"
        ELSE etResult = etDefault

\* C20 amended: as stated, except that for an unmapped exp_type with the
\* default 'science' an item with a valid special modifier attribute gets
\* the type of one of its modifiers (psf, imprint, background).
C20_ExposureTypeDefaultOrSpecial ==
    etResult # "NotCalled" =>
        IF etItem.exp_type = Missing THEN etResult = "LookupError"
        ELSE IF etItem.exp_type \in MappedExpTypes THEN etResult = EXPTYPE_MAP(etItem.exp_type)
        ELSE IF etDefault = PyNone THEN etResult = "LookupError"
        ELSE IF etDefault = "science" /\ SpecialsOf(etItem) # {} THEN etResult \in SpecialsOf(etItem)
        ELSE etResult = etDefault

C20_Witness ==
    /\ etItem.exp_type = "mir_image"
    /\ etItem.is_psf = "t"
    /\ etItem.is_imprt = "null"
    /\ etDefault = "science"
    /\ etResult = "psf"

\* the rows of the pool that are equal to a given row
Rows(it) == {i \in DOMAIN gPool : gPool[i] = it}
InSomeAsn(i) == \E k \in DOMAIN gAsns : i \in SeqToSet(gAsns[k].members)
Ended == gPhase \in {"done", "failed"}

\* the pool of two mir_image rows of candidate o001 and one mir_dark row,
\* in any order, against the imaging rule and the dark rule
ImagingScenario ==
    /\ Len(gPool) = 3
    /\ Cardinality(Rows(ImageO001)) = 2
    /\ Cardinality(Rows(DarkItem)) = 1
    /\ gRegistry = <<IMAGE_RULE, DARK_RULE>>

\* C15: the scenario ends with exactly two associations, one per type, the
\* imaging one with 2 members and sequence 1, and with no orphaned row.
C15_ImagingScenarioResult ==
    (ImagingScenario /\ gPhase = "done") =>
        /\ Len(gAsns) = 2
        /\ \E k \in DOMAIN gAsns : gAsns[k].rule = DARK_RULE
        /\ \E k \in DOMAIN gAsns :
              /\ gAsns[k].rule = IMAGE_RULE
              /\ Len(gAsns[k].members) = 2
              /\ gAsns[k].sequence = 1
        /\ gOrphaned = {}

\* the rows that were deferred and are in no association
NeverSatisfied == {i \in gDeferred : ~InSomeAsn(i)}

NoFixedPoint == gReprocess # <<>> /\ ~(gCycle > 0 /\ ~gChanged)

\* C17: a run takes at most pool-size reprocess cycles; when the last of
\* them ends without a fixed point the run fails, with no result; a run
\* fails in no other case and completes only at a fixed point.
C17_FatalAfterPoolSizeCycles ==
    /\ [](gCycle <= Len(gPool))
    /\ [](gPhase = "failed" => (gCycle = Len(gPool) /\ NoFixedPoint /\ gOrphaned = {}))
    /\ [](gPhase = "done" => ~NoFixedPoint)
    /\ [][(gPhase = "run" /\ gQueue = <<>> /\ gCycle = Len(gPool) /\ NoFixedPoint)
            => gPhase' = "failed"]_vars

C17_Witness ==
    /\ gPhase = "failed"
    /\ gPool = <<IfuItem, ImageO001>>
    /\ gCycle = 2
    /\ Len(gAsns) = 4

\* whether a row satisfies a rule of the registry, whatever else is in the pool
Satisfies(i) ==
    LET it == gPool[i]
    IN \/ it.exp_type = "mir_dark"
       \/ it.exp_type = "mir_image" /\ it.bkgdtarg = Missing
       \/ it.exp_type = "mir_image" /\ it.bkgdtarg = "t"
          /\ \E j \in DOMAIN gPool : gPool[j].exp_type = "mir_image" /\ gPool[j].bkgdtarg = Missing
       \/ it.exp_type = "nrs_ifu" /\ EACH_RULE \in SeqToSet(gRegistry)

\* C18: a lookup error on a row without exp_type never aborts the run;
\* every row is still attempted, the rows with an exp_type are in an
\* association exactly when they satisfy a rule, and the failing row, which
\* matches no rule, is orphaned.
C18_LookupErrorDoesNotAbort ==
    /\ gPhase # "aborted"
    /\ gPhase = "done" =>
          \A i \in DOMAIN gPool :
              /\ gTries[i] >= 1
              /\ gPool[i].exp_type = Missing => i \in gOrphaned
              /\ gPool[i].exp_type # Missing => (InSomeAsn(i) <=> Satisfies(i))

C18_Witness ==
    /\ gPhase = "done"
    /\ gPool = <<NoExpTypeItem, ImageO001, DarkItem>>
    /\ gOrphaned = {1}
    /\ Len(gAsns) = 2

MappedType == IF etItem.exp_type \in MappedExpTypes THEN EXPTYPE_MAP(etItem.exp_type) ELSE etDefault

C22_ScienceTsoExactly ==
    (tsoResult # "NotCalled" /\ item.pntgtype = "science") =>
        /\ tsoResult \in {"True", "False"}
        /\ tsoResult = "True" <=>
              \/ isTsoValue = "t"
              \/ item.tsovisit = "t"
              \/ item.exp_type \in {"nrc_tsimage", "nrc_tsgrism", "nrs_brightobj"} \cup otherExpTypes
        /\ (item.exp_type \in SeqToSet(CORON_EXP_TYPES) /\ isTsoValue # "t" /\ item.tsovisit # "t")
              => (tsoResult = "True" <=> item.exp_type \in otherExpTypes)

\* a coronagraphic science item with no other indicator, passed as extra type
C22_Witness ==
    /\ tsoResult = "True"
    /\ item.pntgtype = "science"
    /\ item.exp_type \in SeqToSet(CORON_EXP_TYPES)
    /\ item.exp_type \in otherExpTypes
    /\ item.tsovisit # "t"
    /\ isTsoValue # "t"

\* C23: validate raises exactly when some attached test is not validated
\* and returns true when all are, also when no test is attached.
C23_ValidateAllTests ==
    vOp.op = "validate" =>
        /\ vOp.result = "AssociationNotValidError" <=> \E t \in DOMAIN vValidity : ~vValidity[t]
        /\ (\A t \in DOMAIN vValidity : vValidity[t]) => vOp.result = "True"

\* validate has raised with one test validated and another not
C23_Witness ==
    /\ vOp.op = "validate"
    /\ vOp.result = "AssociationNotValidError"
    /\ DOMAIN vValidity = {"has_science", "has_target"}
    /\ vValidity["has_science"]
    /\ ~vValidity["has_target"]

\* C30: update_validity leaves a validated test validated and does not call
\* its check; a test not yet validated gets the result of its check on the
\* entry.
C30_ValidityLatches ==
    [][vOp'.op = "update_validity" =>
          \A t \in DOMAIN vValidity :
              IF vValidity[t]
              THEN vValidity'[t] /\ vEvals'[t] = vEvals[t]
              ELSE vValidity'[t] = (t \in vOp'.entry) /\ vEvals'[t] = vEvals[t] + 1]_vars

\* a test validated by the first entry is still validated after an entry
\* on which its check is false, with its check called once
C30_Witness ==
    /\ vOp.op = "update_validity"
    /\ vCount = 2
    /\ "has_science" \in DOMAIN vValidity
    /\ "has_science" \notin vOp.entry
    /\ vValidity["has_science"]
    /\ vEvals["has_science"] = 1

\* C24: create returns no association and the base class's reprocess list
\* when the item does not satisfy the rule, and else a new association with
\* its sequence number assigned, together with that list, empty or not.
C24_CreateReturns ==
    [][seqOp'.op = "create" =>
          /\ seqOp'.reprocess = seqOp'.given
          /\ IF ~seqOp'.matched
             THEN ~seqOp'.made /\ asns' = asns
             ELSE /\ seqOp'.made
                  /\ Len(asns') = Len(asns) + 1
                  /\ asns'[Len(asns')].sequence = seqOp'.result
                  /\ seqOp'.result # NoSequence
                  /\ seqOp'.result = NextValue(ownSeq, asns'[Len(asns')].cls)]_vars

\* an association was returned with sequence 2 and a reprocess list
C24_Witness ==
    /\ seqOp.op = "create"
    /\ seqOp.made
    /\ seqOp.reprocess # <<>>
    /\ Len(asns) = 2
    /\ asns[2].sequence = 2

\* the expnames of the members of product p
ExpNamesOf(p) == {products[p][i].expname : i \in 1..Len(products[p])}

\* C25: is_member tells whether the current, last-created product has a
\* member with the candidate's expname; the members of earlier products do
\* not count.
C25_IsMemberOfCurrentProduct ==
    lastOp = "is_member" =>
        (isMember.result = "True" <=>
            (products # <<>> /\ isMember.expname \in ExpNamesOf(Len(products))))

\* after new_product a candidate that is in the first product is no member
C25_Witness ==
    /\ lastOp = "is_member"
    /\ Len(products) = 2
    /\ isMember.expname \in ExpNamesOf(1)
    /\ isMember.expname \notin ExpNamesOf(2)
    /\ isMember.result = "False"

\* C26: no product has two members with the same expname, and offering a
\* member whose expname the current product has already leaves the products
\* as they are, without an error.
C26_NoDuplicateMembers ==
    /\ [](\A p \in 1..Len(products) : \A i, j \in 1..Len(products[p]) :
             i # j => products[p][i].expname # products[p][j].expname)
    /\ [][(lastOp' = "add_member" /\ products # <<>>
           /\ isMember'.expname \in ExpNamesOf(Len(products)))
             => products' = products]_vars

\* a member was offered whose expname the current product has
C26_Witness ==
    /\ lastOp = "add_member"
    /\ isMember.result = "True"
    /\ Len(products) = 1
    /\ Len(products[1]) = 1
    /\ products[1][1].expname = isMember.expname

ChildrenWith(r) == {i \in DOMAIN cChildren : cChildren[i].result = r}
\* the children that end the evaluation of an all composite
Deciding ==
    ChildrenWith(FAILED) \cup {i \in ChildrenWith(NOT_APPLICABLE) : cChildren[i].required}
FirstOf(S) == CHOOSE i \in S : \A j \in S : i <= j

\* C27: an all composite is failed as soon as an applicable child fails and
\* not applicable as soon as a required child is not applicable, whichever
\* comes first; other children that are not applicable are skipped and make
\* no failure.
C27_AllReduction ==
    (cResult # "NotEvaluated" /\ cReduce = "all") =>
        IF Deciding # {}
        THEN cResult = (IF cChildren[FirstOf(Deciding)].result = FAILED THEN FAILED ELSE NOT_APPLICABLE)
        ELSE /\ cResult # FAILED
             /\ ChildrenWith(MATCHED) # {} => cResult = MATCHED

\* a child that is not applicable was skipped, then a required one that is
\* not applicable ended the evaluation before a failing child
C27_Witness ==
    /\ cReduce = "all"
    /\ cResult = NOT_APPLICABLE
    /\ Len(cChildren) = 3
    /\ cChildren[1] = [result |-> NOT_APPLICABLE, required |-> FALSE]
    /\ cChildren[2] = [result |-> NOT_APPLICABLE, required |-> TRUE]
    /\ cChildren[3].result = FAILED

\* C28: an any composite is matched when some child matched, not applicable
\* when every child is not applicable, and failed when some child is
\* applicable and every applicable child failed.
C28_AnyReduction ==
    (cResult # "NotEvaluated" /\ cReduce = "any") =>
        /\ ChildrenWith(MATCHED) # {} => cResult = MATCHED
        /\ ChildrenWith(NOT_APPLICABLE) = DOMAIN cChildren => cResult = NOT_APPLICABLE
        /\ (ChildrenWith(FAILED) # {} /\ ChildrenWith(MATCHED) = {}) => cResult = FAILED

C28_Witness ==
    /\ cReduce = "any"
    /\ cResult = FAILED
    /\ Len(cChildren) = 2
    /\ cChildren[1].result = NOT_APPLICABLE
    /\ cChildren[2].result = FAILED

\* the part of an association name between the acid and the type of a run's
\* association: the version stamp
StampIn(name) ==
    SubSeq(name, Len(<<"j", "w">> \o RunAsn(<<>>, 1).program \o <<"-">>
                     \o Acid(RunAsn(<<>>, 1)) \o <<"_">>) + 1,
           Len(name) - Len(<<"_">> \o RunAsn(<<>>, 1).asn_type
                           \o <<"_", "0", "0", "0", "_", "a", "s", "n">>))

\* C29: when the version id was asked for without a value, every association
\* of the run has the time at which the run began as its version id, and the
\* names of all associations of the run hold that one stamp.
C29_OneStampPerRun ==
    verArg = VersionRequested =>
        \A i \in DOMAIN verAsns :
            /\ verAsns[i].version_id = make_timestamp(verRun.at)
            /\ StampIn(verAsns[i].asn_name) = Lower(make_timestamp(verRun.at))
            /\ \A j \in DOMAIN verAsns :
                   StampIn(verAsns[i].asn_name) = StampIn(verAsns[j].asn_name)

\* two associations of one run made at different times, both after the run
\* began
C29_Witness ==
    /\ verArg = VersionRequested
    /\ Len(verAsns) >= 2
    /\ verRun.at < verAsns[1].at
    /\ verAsns[1].at < verAsns[2].at
    /\ StampIn(verAsns[2].asn_name) = Lower(make_timestamp(verRun.at))

CandidateIdsOf(l) == {l[i].id : i \in {j \in 1..Len(l) : IsCandidate(l[j])}}

\* C32: without a selector both discover and all-candidates are on; the
\* discover ruleset is registered exactly when discover is on; when discover
\* is on the generated list is cleared of discovered associations equal to a
\* candidate and then resequenced, with the candidates kept exactly when
\* all-candidates is on; when discover is off the generated list is the
\* output as it is.
C32_OperatingMode ==
    /\ [](\A c \in LoadedClasses : RegistryName(c) = DISCOVER_RULESET =>
             (c \in Registered(mode) <=> mode \in {"none", "discover"}))
    /\ [][(phase = "generate" /\ phase' = "done") =>
            IF mode \in {"none", "discover"}
            THEN /\ \A i \in 1..Len(asns') : IsDiscovered(asns'[i]) =>
                        ~\E j \in 1..Len(asns) : IsCandidate(asns[j]) /\ AsnEq(asns'[i], asns[j])
                 /\ \A j \in 1..Len(asns) :
                        (IsDiscovered(asns[j])
                         /\ \A k \in 1..Len(asns) : IsCandidate(asns[k]) => ~AsnEq(asns[j], asns[k]))
                        => \E i \in 1..Len(asns') : asns'[i].id = asns[j].id
                 /\ \A i \in 1..Len(asns') :
                        asns'[i].sequence =
                            Cardinality({j \in 1..i : asns'[j].cls = asns'[i].cls})
                 /\ CandidateIdsOf(asns') =
                        (IF mode = "none" THEN CandidateIdsOf(asns) ELSE {})
            ELSE asns' = asns]_vars

\* --discover alone: candidate associations were generated, none is in the
\* output, a discovered one is
C32_Witness ==
    /\ mode = "discover"
    /\ phase = "done"
    /\ issuedSeq["candidate_Asn_Image"] # <<>>
    /\ CandidateIdsOf(asns) = {}
    /\ Len(asns) >= 1

\* C33: a create call that makes no association leaves the number that every
\* rule class would assign next as it was, so the successful create after
\* any number of such calls assigns the number it would have assigned
\* without them.
C33_FailedCreateConsumesNothing ==
    [][seqOp'.op = "create" =>
          IF ~seqOp'.made
          THEN /\ \A c \in LoadedClasses : NextValue(ownSeq', c) = NextValue(ownSeq, c)
               /\ ownSeq' = ownSeq
               /\ issuedSeq' = issuedSeq
          ELSE seqOp'.after_failed =>
                   seqOp'.result = NextValue(ownSeq, asns'[Len(asns')].cls)]_vars

\* a second association was created right after a create call that made
\* none, and has sequence 2
C33_Witness ==
    /\ seqOp.op = "create"
    /\ seqOp.made
    /\ seqOp.after_failed
    /\ Len(asns) = 2
    /\ asns[1].sequence = 1
    /\ asns[2].sequence = 2

\* C34: the list returned holds the discovered associations that survive, in
\* the order they had in the list handed in, followed by the candidate
\* associations that are kept, in the order they had; the list handed in and
\* every association of it are after the call as they were before.
C34_FilterOrderAndFrame ==
    [][(fStage = 0 /\ fStage' = 1) =>
          /\ fIn' = fIn
          /\ \A i \in 1..Len(fOut1') : fOut1'[i] = fIn[fOut1'[i].id]
          /\ \A i, j \in 1..Len(fOut1') : i < j =>
                /\ ~(IsCandidate(fOut1'[i]) /\ IsDiscovered(fOut1'[j]))
                /\ RegistryName(fOut1'[i].cls) = RegistryName(fOut1'[j].cls)
                       => fOut1'[i].id < fOut1'[j].id
          /\ CandidateIdsOf(fOut1') = (IF fKeep THEN CandidateIdsOf(fIn) ELSE {})]_vars

\* a candidate stood between two discovered associations that both survive:
\* it is returned after them
C34_Witness ==
    /\ fStage = 1
    /\ Len(fIn) = 3
    /\ IsDiscovered(fIn[1]) /\ IsCandidate(fIn[2]) /\ IsDiscovered(fIn[3])
    /\ Len(fOut1) = 3
    /\ fOut1[1] = fIn[1] /\ fOut1[2] = fIn[3] /\ fOut1[3] = fIn[2]

\* C35: when the filter of the input model has no entry in the filteroffset
\* file, imaging_distortion returns the distortion model alone and does not
\* fail; when the filter has an entry, the returned model shifts a pixel by
\* the filter's row and column offsets and then applies the distortion.
C35_FilterOffsetOptional ==
    wResult # WcsNotCalled =>
        IF wFilter \notin DOMAIN wTree
        THEN wResult.raised = "" /\ wResult.model = <<DistortionModel>>
        ELSE /\ wResult.raised = ""
             /\ wPixel # <<>> =>
                   wPixel[2] = Distort(<<wPixel[1][1] + wTree[wFilter].row_offset,
                                         wPixel[1][2] + wTree[wFilter].column_offset>>)

====
